---- MODULE Spec2Model ----
(***************************************************************************)
(* Model of the agent-orchestration engine of Dr. Asthana.                 *)
(*                                                                         *)
(* Part 1: the AI provider module (src/ai-provider): the spawn engine's    *)
(* settle paths, the two adapters' output parsing, the garbage / rate-     *)
(* limit predicates, winner selection, and the four execution strategies   *)
(* (single, fallback, parallel, race) driven by a sequential caller that   *)
(* issues runAI() calls one after the other.                               *)
(*                                                                         *)
(* A text is abstracted to the features the code inspects: its length,     *)
(* its trimmed length, and which signatures it contains.  A subprocess is  *)
(* a record in procs from nodeSpawn() until its 'close'/'error' event.     *)
(***************************************************************************)
EXTENDS Integers, Sequences, FiniteSets, TLC

\* Number of runAI() calls the caller issues in one run.
MaxCalls == 2

\* isGarbageOutput: minimum trimmed length of a usable output.
MinGoodLen == 50

\* ADAPTERS of ai-provider/index.js.
ADAPTERS == {"claude", "codex"}

\* STRATEGIES of ai-provider/index.js.
STRATEGIES == {"single", "fallback", "parallel", "race"}

\* The modes runAI() is called with.
Modes == {"execute", "debate", "evaluate"}

\* Values of modeConfig.provider / modeConfig.fallbackProvider: a known
\* adapter, a name with no adapter, or unset.
Unset == "unset"
ConfigNames == {"claude", "codex", "gemini", Unset}

---------------------------------------------------------------------------
\* Texts.  hit: contains "You've hit your limit" or 'resets ';
\* rl: contains 'rate limit' or 'Rate limit'; mark: contains FILES CHANGED,
\* SUMMARY or RISKS.

Text(l, t, h, r, m) == [len |-> l, trim |-> t, hit |-> h, rl |-> r, mark |-> m]

EmptyText == Text(0, 0, FALSE, FALSE, FALSE)

Texts ==
  { EmptyText,
    Text(3, 0, FALSE, FALSE, FALSE),      \* whitespace only
    Text(20, 20, FALSE, FALSE, FALSE),    \* too short
    Text(70, 70, TRUE, FALSE, FALSE),     \* "You've hit your limit ..."
    Text(72, 72, FALSE, TRUE, FALSE),     \* "... rate limit ..."
    Text(60, 60, FALSE, FALSE, FALSE),    \* plain, usable
    Text(80, 80, FALSE, FALSE, TRUE),     \* structured
    Text(100, 100, FALSE, FALSE, FALSE),  \* plain, longer
    Text(120, 120, FALSE, FALSE, TRUE) }  \* structured, longest

\* JavaScript truthiness of a string.
Truthy(text) == text.len > 0

\* provider.js isRateLimited
IsRateLimited(text) == Truthy(text) /\ text.hit

\* provider.js isGarbageOutput
IsGarbageOutput(text) ==
  \/ ~Truthy(text)
  \/ text.trim = 0
  \/ IsRateLimited(text)
  \/ text.trim < MinGoodLen

\* adapters/claude.js and adapters/codex.js isRateLimited
AdapterIsRateLimited(name, text) ==
  IF name = "claude" THEN Truthy(text) /\ text.hit
  ELSE Truthy(text) /\ text.rl

\* What a provider process can have written to stdout by the time it closes.
\* claude: a stream of events, of which the parser keeps the result event's
\* text and the last assistant text.  codex: plain text.
ClaudeStdouts ==
  [resultEvent : {TRUE}, result : Texts, assistant : {EmptyText, Text(60, 60, FALSE, FALSE, FALSE)}]
    \cup [resultEvent : {FALSE}, result : {EmptyText}, assistant : Texts]

CodexStdouts == [raw : Texts]

Stdouts(name) == IF name = "claude" THEN ClaudeStdouts ELSE CodexStdouts

ExitCodes == {0, 1}

\* Variant of ParseStreamOutput: the last assistant text is preferred to the
\* result event's text.
ParseStreamOutputAssistantFirst(name, stdout, exitCode) ==
  IF name = "claude"
  THEN LET resultEventText == stdout.result
           output == IF Truthy(stdout.assistant) THEN stdout.assistant ELSE resultEventText
       IN [output |-> output,
           completedNormally |-> exitCode = 0 /\ stdout.resultEvent /\ resultEventText.len > 0]
  ELSE [output |-> stdout.raw,
        completedNormally |-> exitCode = 0 /\ stdout.raw.trim > 0]

\* adapters/*.js parseStreamOutput
ParseStreamOutput(name, stdout, exitCode) ==
  IF name = "claude"
  THEN LET resultEventText == stdout.result
           output == IF Truthy(resultEventText) THEN resultEventText ELSE stdout.assistant
       IN [output |-> output,
           completedNormally |-> exitCode = 0 /\ stdout.resultEvent /\ resultEventText.len > 0]
  ELSE [output |-> stdout.raw,
        completedNormally |-> exitCode = 0 /\ stdout.raw.trim > 0]

\* The invocation result built by every strategy's runProvider.
MkResult(name, stdout, exitCode) ==
  LET parsed == ParseStreamOutput(name, stdout, exitCode)
  IN [output |-> parsed.output,
      completedNormally |-> parsed.completedNormally,
      exitCode |-> exitCode,
      rateLimited |-> IsRateLimited(parsed.output) \/ AdapterIsRateLimited(name, parsed.output),
      provider |-> name]

\* The zero-length failing placeholder recorded for an invocation that threw.
Placeholder(name) ==
  [output |-> EmptyText, completedNormally |-> FALSE, exitCode |-> -1,
   rateLimited |-> FALSE, provider |-> name]

\* a.output.length > b.output.length ? a : b
Longer(a, b) == IF a.output.len > b.output.len THEN a ELSE b

RECURSIVE SelectSeq2(_, _)
SelectSeq2(s, keep) ==
  IF s = <<>> THEN <<>>
  ELSE IF Head(s) \in keep THEN <<Head(s)>> \o SelectSeq2(Tail(s), keep)
       ELSE SelectSeq2(Tail(s), keep)

RECURSIVE Reduce(_)
Reduce(s) == IF Len(s) = 1 THEN s[1] ELSE Reduce(<<Longer(s[1], s[2])>> \o SubSeq(s, 3, Len(s)))

Range(s) == {s[i] : i \in 1..Len(s)}

\* Variant of PickBestOutput without the preferences: the longest
\* non-garbage result.
PickBestOutputLongest(rs) ==
  LET valid == SelectSeq2(rs, {r \in Range(rs) : Truthy(r.output) /\ ~IsGarbageOutput(r.output)})
      nonEmpty == SelectSeq2(rs, {r \in Range(rs) : Truthy(r.output)})
  IN IF valid = <<>>
     THEN (IF nonEmpty # <<>> THEN nonEmpty[1] ELSE rs[1])
     ELSE Reduce(valid)

\* provider.js pickBestOutput, for a non-empty list of results.
PickBestOutput(rs) ==
  LET valid == SelectSeq2(rs, {r \in Range(rs) : Truthy(r.output) /\ ~IsGarbageOutput(r.output)})
      nonEmpty == SelectSeq2(rs, {r \in Range(rs) : Truthy(r.output)})
      structured == SelectSeq2(valid, {r \in Range(valid) : r.output.mark})
      completed == SelectSeq2(valid, {r \in Range(valid) : r.completedNormally})
  IN IF valid = <<>>
     THEN (IF nonEmpty # <<>> THEN nonEmpty[1] ELSE rs[1])
     ELSE IF structured # <<>> THEN Reduce(structured)
     ELSE IF completed # <<>> THEN Reduce(completed)
     ELSE Reduce(valid)

---------------------------------------------------------------------------
\* State.

VARIABLES
  strategy,          \* config.aiProvider.strategy
  provider,          \* modeConfig.provider
  fallbackProvider,  \* modeConfig.fallbackProvider
  callNo,            \* number of runAI() calls issued so far
  mode,              \* options.mode of the latest call
  pc,                \* where the latest call is waiting; "idle" once it settled
  procs,             \* subprocesses that have been spawned and have not exited
  inv,               \* the latest call's runProvider promises (1 primary/A, 2 secondary/B)
  fail,              \* why the spawn promise of each invocation rejected, if it did
  results,           \* race: the results array of the latest call's closure
  settled,           \* race: the settled flag of the latest call's closure
  settleCalls,       \* race: how often resolve()/reject() of the call's promise was called
  outcome,           \* the promise runAI() returned for the latest call
  dupExists,         \* the directory `${workingDir}-parallel` exists on disk
  launchLog          \* spawnFn calls of the latest call, in order

\* The debate engine (prompt/debate.js runDebate) and the evaluator.
VARIABLES
  maxRounds,         \* runDebate: maxRounds
  round,             \* runDebate: the loop variable
  dpc,               \* runDebate: where it is ("off" when no debate is modelled)
  agentAOutput,      \* runDebate: agentAOutput
  agentBOutput,      \* runDebate: agentBOutput
  lastDebateOutput,  \* runDebate: lastDebateOutput
  debateResult,      \* what runDebate returned
  roleLog,           \* the role invocations made, in order
  evalLog,           \* the evaluate() calls made, in order
  roundFiles         \* files under <checkpointDir>/debate-rounds

\* The pipeline orchestrator (pipeline/index.js) and the checkpoint store
\* (pipeline/checkpoint.js) of one ticket.
VARIABLES
  ticket,            \* the parsed ticket, as far as the gates look at it
  nBranches,         \* number of (service, branch) pairs of the ticket
  maxRetries,        \* processServiceBranch: maxRetries
  ppc,               \* runPipeline: where it is ("off" when no run is modelled)
  branch,            \* index of the pair being processed
  attempt,           \* processServiceBranch: attempt
  planText,          \* processServiceBranch: cheatsheet
  tmpDir,            \* processServiceBranch: the clone directory exists
  stateFile,         \* .pipeline-state/<ticketKey>/state.json
  cheatsheetFile,    \* .pipeline-state/<ticketKey>/cheatsheet.md
  allPRs,            \* runPipeline: allPRs
  allFailures,       \* runPipeline: allFailures
  pipelineResult,    \* what runPipeline returned
  lastCompleted,     \* the last step whose endStep(true, ...) was reached
  sheetResults,      \* what buildCheatsheet returned, per pair
  resumes,           \* number of resume() calls made for the ticket
  resumeLog,         \* the latest resume() call: its argument, what it loaded, how it ended
  stepsRun,          \* numbers of the steps started (startStep) in the current run
  thrownAt,          \* where exceptions were raised in the current run
  cloneDirs,         \* pairs whose clone directory exists on disk
  aiLog,             \* the runAI calls of the current run: pair, mode, cheatsheet checkpointed
  execCount,         \* number of execute() calls, per pair
  lastValidation,    \* verdict of the latest validateExecution of the current pair
  reports,           \* terminal reports sent outward in the current run
  finalized,         \* the finalizeRun calls of the current run
  lastSave           \* arguments of the latest saveCheckpoint call

\* One call of the spawn engine (provider.js spawn) by a runProvider.
VARIABLES
  spAdapter,         \* the adapter whose command is spawned
  spTimeout,         \* opts.timeout, in heartbeat intervals
  exitsOnOwn,        \* whether the subprocess ever exits without being signalled
  spClock,           \* heartbeat intervals elapsed since startTime
  heartbeat,         \* the setInterval timer: "none", "active", "cleared"
  timeoutId,         \* the setTimeout timer: "none", "armed", "fired", "cleared"
  proc,              \* the child process
  signals,           \* the signals sent with proc.kill
  spPromise,         \* the promise spawn returned
  lateBeats,         \* heartbeat lines logged after the promise settled
  parsed             \* what the adapter's parseStreamOutput made of the stdout

cfgVars == <<strategy, provider, fallbackProvider>>
callVars == <<callNo, mode>>
raceVars == <<results, settled, settleCalls>>
aiVars == <<strategy, provider, fallbackProvider, callNo, mode, pc, procs, inv, fail,
            results, settled, settleCalls, outcome, dupExists, launchLog>>
debateVars == <<maxRounds, round, dpc, agentAOutput, agentBOutput, lastDebateOutput,
                debateResult, roleLog, evalLog, roundFiles>>
pipeVars == <<ticket, nBranches, maxRetries, ppc, branch, attempt, planText, tmpDir,
              stateFile, cheatsheetFile, allPRs, allFailures, pipelineResult,
              lastCompleted, sheetResults, resumes, resumeLog, stepsRun, thrownAt,
              cloneDirs, aiLog, execCount, lastValidation, reports, finalized, lastSave>>
spawnVars == <<spAdapter, spTimeout, exitsOnOwn, spClock, heartbeat, timeoutId, proc,
               signals, spPromise, lateBeats, parsed>>
restVars == <<debateVars, pipeVars, spawnVars>>
vars == <<aiVars, spawnVars, restVars>>

\* Texts written by the debate roles.  paths: matches of the file-path
\* pattern; verbs: matches of the action-verb pattern; rl: the invocation
\* result built from it has rateLimited set.
DText(l, p, v, r) == [len |-> l, paths |-> p, verbs |-> v, rl |-> r]
NoText == DText(0, 0, 0, FALSE)

\* A plan (cheatsheet): where its text was taken from, and its length.
Plan(kind, len) == [kind |-> kind, len |-> len]
NoPlan == Plan("none", 0)

DebateOutcome(passed, cheatsheet, feedback, rounds) ==
  [passed |-> passed, cheatsheet |-> cheatsheet, feedback |-> feedback, rounds |-> rounds]

\* The other components are not running.
DebateOff ==
  /\ maxRounds = 0
  /\ round = 0
  /\ dpc = "off"
  /\ agentAOutput = NoText
  /\ agentBOutput = NoText
  /\ lastDebateOutput = NoText
  /\ debateResult = DebateOutcome(FALSE, NoPlan, "none", 0)
  /\ roleLog = <<>>
  /\ evalLog = <<>>
  /\ roundFiles = {}

\* A cheatsheet in the pipeline is identified by the pair it was built for.
NoSheet == 0

\* state.json: the step, the cheatsheet of the saved data (NoSheet when the
\* data has none) and the pair that was being processed.
State(step, sheet, b) == [currentStep |-> step, cheatsheet |-> sheet, branch |-> b]
NoState == State("none", NoSheet, 0)

\* A resume() call: fromStep, what loadCheckpoint gave it, and its outcome.
ResumeEntry(fromStep, hadState, hadSheet, dirMissing, how) ==
  [fromStep |-> fromStep, hadState |-> hadState, hadSheet |-> hadSheet,
   dirMissing |-> dirMissing, outcome |-> how]
NoResume == ResumeEntry(0, FALSE, FALSE, FALSE, "none")

SheetResult(status, phase, debated) == [status |-> status, phase |-> phase, debated |-> debated]
NoSheetResult == SheetResult("none", "none", FALSE)

PipelineOff ==
  /\ ticket = [valid |-> TRUE, shapeOk |-> TRUE]
  /\ nBranches = 0
  /\ maxRetries = 0
  /\ ppc = "off"
  /\ branch = 0
  /\ attempt = 0
  /\ planText = NoSheet
  /\ tmpDir = FALSE
  /\ stateFile = NoState
  /\ cheatsheetFile = NoSheet
  /\ allPRs = {}
  /\ allFailures = {}
  /\ pipelineResult = "none"
  /\ lastCompleted = "none"
  /\ sheetResults = <<>>
  /\ resumes = 0
  /\ resumeLog = NoResume
  /\ stepsRun = {}
  /\ thrownAt = {}
  /\ cloneDirs = {}
  /\ aiLog = {}
  /\ execCount = <<>>
  /\ lastValidation = "none"
  /\ reports = <<>>
  /\ finalized = <<>>
  /\ lastSave = NoState

\* A settled or pending spawn promise.
SpawnPromise(st, stdout, exitCode, message, elapsed) ==
  [st |-> st, stdout |-> stdout, exitCode |-> exitCode, message |-> message,
   elapsed |-> elapsed]
NoStream ==
  [raw |-> EmptyText, resultEvent |-> FALSE, result |-> EmptyText, assistant |-> EmptyText]
PendingSpawn == SpawnPromise("pending", NoStream, -1, "none", 0)
NoParse == [done |-> FALSE, output |-> EmptyText, completedNormally |-> FALSE]

\* The spawn engine is not running.
SpawnOff ==
  /\ spAdapter = "claude"
  /\ spTimeout = 0
  /\ exitsOnOwn = FALSE
  /\ spClock = 0
  /\ heartbeat = "none"
  /\ timeoutId = "none"
  /\ proc = "none"
  /\ signals = <<>>
  /\ spPromise = PendingSpawn
  /\ lateBeats = 0
  /\ parsed = NoParse

RestOff == DebateOff /\ PipelineOff /\ SpawnOff

NoResult == Placeholder(Unset)

Slot(st, value) == [st |-> st, value |-> value]
NoSlot == Slot("none", NoResult)
Pending == Slot("pending", NoResult)
Fulfilled(r) == Slot("fulfilled", r)
RejectedSlot == Slot("rejected", NoResult)

Outcome(kind, value) == [kind |-> kind, value |-> value]
Resolved(r) == Outcome("resolved", r)
Thrown == Outcome("rejected", NoResult)

\* modeConfig.provider || 'claude'
PrimaryName == IF provider = Unset THEN "claude" ELSE provider

Proc(c, slot, name, cwd) == [call |-> c, slot |-> slot, prov |-> name, cwd |-> cwd, st |-> "running"]
Launch(slot, name, cwd, dup) == [slot |-> slot, provider |-> name, cwd |-> cwd, dup |-> dup]

\* What a settled spawn promise hands to the awaiting runProvider.
SpawnOk(r) == [ok |-> TRUE, result |-> r, cause |-> "none"]
SpawnFailed(cause) == [ok |-> FALSE, result |-> NoResult, cause |-> cause]

Init ==
  /\ strategy \in STRATEGIES
  /\ provider \in ConfigNames
  /\ fallbackProvider \in ConfigNames
  /\ callNo = 0
  /\ mode = "debate"
  /\ pc = "idle"
  /\ procs = {}
  /\ inv = [i \in 1..2 |-> NoSlot]
  /\ fail = [i \in 1..2 |-> "none"]
  /\ results = <<>>
  /\ settled = FALSE
  /\ settleCalls = 0
  /\ outcome = Outcome("none", NoResult)
  /\ dupExists = FALSE
  /\ launchLog = <<>>
  /\ RestOff

\* The part of a new call that is the same for every strategy: runAI() is
\* entered with fresh closures.
Enter(m) ==
  /\ pc = "idle"
  /\ callNo < MaxCalls
  /\ callNo' = callNo + 1
  /\ mode' = m
  /\ UNCHANGED <<cfgVars, restVars>>

\* A strategy starts by running one provider through a runProvider that lets
\* exceptions escape or by throwing "Unknown provider" itself.
StartOne(name, waitAt) ==
  IF name \notin ADAPTERS
  THEN /\ inv' = [i \in 1..2 |-> IF i = 1 THEN RejectedSlot ELSE NoSlot]
       /\ fail' = [i \in 1..2 |-> IF i = 1 THEN "adapter" ELSE "none"]
       /\ outcome' = Thrown
       /\ pc' = "idle"
       /\ launchLog' = <<>>
       /\ UNCHANGED procs
  ELSE /\ inv' = [i \in 1..2 |-> IF i = 1 THEN Pending ELSE NoSlot]
       /\ fail' = [i \in 1..2 |-> "none"]
       /\ outcome' = Outcome("pending", NoResult)
       /\ pc' = waitAt
       /\ launchLog' = <<Launch(1, name, "real", dupExists')>>
       /\ procs' = procs \cup {Proc(callNo', 1, name, "real")}

FreshRace == results' = <<>> /\ settled' = FALSE /\ settleCalls' = 0

\* strategies/single.js run, up to `await spawnFn`
SingleRun(m) ==
  /\ strategy = "single"
  /\ Enter(m)
  /\ FreshRace
  /\ UNCHANGED dupExists
  /\ StartOne(PrimaryName, "single")

\* strategies/fallback.js run, up to the first await
FallbackRun(m) ==
  /\ strategy = "fallback"
  /\ Enter(m)
  /\ FreshRace
  /\ UNCHANGED dupExists
  /\ StartOne(PrimaryName, "fb_primary")

\* strategies/parallel.js getProviderPair
GetProviderPair ==
  IF fallbackProvider # Unset /\ fallbackProvider # PrimaryName /\ fallbackProvider \in ADAPTERS
  THEN <<PrimaryName, fallbackProvider>>
  ELSE <<PrimaryName>>

\* strategies/parallel.js run, up to `await Promise.allSettled`.  cpOk: the
\* `cp -r` succeeded; partial: a failed copy (killed by the 60 s execSync
\* timeout, or out of space) left part of the directory behind.  The catch
\* branch goes on with runSingle and does not touch the directory.
ParallelRun(m, cpOk, partial) ==
  /\ strategy = "parallel"
  /\ Enter(m)
  /\ FreshRace
  /\ LET names == GetProviderPair
         isWriteMode == m = "execute"
     IN IF Len(names) < 2
        THEN /\ cpOk /\ ~partial
             /\ UNCHANGED dupExists
             /\ StartOne(names[1], "par_single")
        ELSE IF isWriteMode /\ ~cpOk
        THEN /\ dupExists' = (dupExists \/ partial)
             /\ StartOne(names[1], "par_single")
        ELSE /\ cpOk /\ ~partial
             /\ dupExists' = (IF isWriteMode THEN TRUE ELSE dupExists)
             /\ LET dirB == IF isWriteMode THEN "dup" ELSE "real"
                    knownA == names[1] \in ADAPTERS
                IN /\ inv' = [i \in 1..2 |-> IF i = 1 /\ ~knownA THEN RejectedSlot ELSE Pending]
                   /\ fail' = [i \in 1..2 |-> IF i = 1 /\ ~knownA THEN "adapter" ELSE "none"]
                   /\ outcome' = Outcome("pending", NoResult)
                   /\ pc' = "parallel"
                   /\ launchLog' = (IF knownA THEN <<Launch(1, names[1], "real", dupExists')>> ELSE <<>>)
                                     \o <<Launch(2, names[2], dirB, dupExists')>>
                   /\ procs' = procs
                        \cup (IF knownA THEN {Proc(callNo', 1, names[1], "real")} ELSE {})
                        \cup {Proc(callNo', 2, names[2], dirB)}

\* strategies/race.js run, up to the return of the new Promise
RaceRun(m) ==
  /\ strategy = "race"
  /\ Enter(m)
  /\ UNCHANGED dupExists
  /\ settled' = FALSE
  /\ settleCalls' = 0
  /\ IF fallbackProvider = Unset \/ fallbackProvider \notin ADAPTERS \/ fallbackProvider = PrimaryName
     THEN /\ results' = <<>>
          /\ StartOne(PrimaryName, "race_single")
     ELSE LET knownA == PrimaryName \in ADAPTERS
          IN /\ results' = (IF knownA THEN <<>> ELSE <<Placeholder(PrimaryName)>>)
             /\ inv' = [i \in 1..2 |-> IF i = 1 /\ ~knownA THEN RejectedSlot ELSE Pending]
             /\ fail' = [i \in 1..2 |-> IF i = 1 /\ ~knownA THEN "adapter" ELSE "none"]
             /\ outcome' = Outcome("pending", NoResult)
             /\ pc' = "race"
             /\ launchLog' = (IF knownA THEN <<Launch(1, PrimaryName, "real", dupExists)>> ELSE <<>>)
                               \o <<Launch(2, fallbackProvider, "real", dupExists)>>
             /\ procs' = procs
                  \cup (IF knownA THEN {Proc(callNo', 1, PrimaryName, "real")} ELSE {})
                  \cup {Proc(callNo', 2, fallbackProvider, "real")}

---------------------------------------------------------------------------
\* Continuations: what runs when the spawn promise of invocation p settles.
\* s is SpawnOk(result) or SpawnFailed(cause); procs1 is procs after the
\* event.  Each assigns pc, procs, inv, fail, results, settled, settleCalls,
\* outcome, dupExists and launchLog.

SetSlot(f, i, v) == [f EXCEPT ![i] = v]

\* strategies/single.js run, after `await spawnFn`: no try/catch.
SingleSettled(p, procs1, s) ==
  /\ procs' = procs1
  /\ inv' = SetSlot(inv, 1, IF s.ok THEN Fulfilled(s.result) ELSE RejectedSlot)
  /\ fail' = SetSlot(fail, 1, s.cause)
  /\ outcome' = (IF s.ok THEN Resolved(s.result) ELSE Thrown)
  /\ pc' = "idle"
  /\ UNCHANGED <<raceVars, dupExists, launchLog>>

\* strategies/fallback.js and strategies/parallel.js runProvider: the
\* try/catch around spawnFn turns a rejection into the placeholder.
CaughtResult(p, s) == IF s.ok THEN s.result ELSE Placeholder(p.prov)

\* PrimarySucceeded without the garbage test.
PrimarySucceededNoGarbageTest(r) == r.completedNormally /\ ~r.rateLimited

\* strategies/fallback.js run, the test on primaryResult
PrimarySucceeded(r) == r.completedNormally /\ ~r.rateLimited /\ ~IsGarbageOutput(r.output)

\* strategies/fallback.js run, after the primary's runProvider returned
FallbackPrimarySettled(p, procs1, s) ==
  LET primaryResult == CaughtResult(p, s)
  IN /\ inv' = [i \in 1..2 |-> IF i = 1 THEN Fulfilled(primaryResult)
                                ELSE IF PrimarySucceeded(primaryResult)
                                        \/ fallbackProvider = Unset
                                        \/ fallbackProvider \notin ADAPTERS
                                     THEN NoSlot ELSE Pending]
     /\ fail' = SetSlot(fail, 1, s.cause)
     /\ UNCHANGED <<raceVars, dupExists>>
     /\ IF PrimarySucceeded(primaryResult)
        THEN /\ outcome' = Resolved(primaryResult)
             /\ pc' = "idle"
             /\ procs' = procs1
             /\ UNCHANGED launchLog
        ELSE IF fallbackProvider = Unset \/ fallbackProvider \notin ADAPTERS
        THEN /\ outcome' = Resolved(primaryResult)
             /\ pc' = "idle"
             /\ procs' = procs1
             /\ UNCHANGED launchLog
        ELSE /\ UNCHANGED outcome
             /\ pc' = "fb_secondary"
             /\ procs' = procs1 \cup {Proc(callNo, 2, fallbackProvider, "real")}
             /\ launchLog' = Append(launchLog, Launch(2, fallbackProvider, "real", dupExists))

\* strategies/fallback.js run, after the fallback's runProvider returned
FallbackSecondarySettled(p, procs1, s) ==
  /\ procs' = procs1
  /\ inv' = SetSlot(inv, 2, Fulfilled(CaughtResult(p, s)))
  /\ fail' = SetSlot(fail, 2, s.cause)
  /\ outcome' = Resolved(CaughtResult(p, s))
  /\ pc' = "idle"
  /\ UNCHANGED <<raceVars, dupExists, launchLog>>

\* strategies/parallel.js runSingle
ParallelSingleSettled(p, procs1, s) ==
  /\ procs' = procs1
  /\ inv' = SetSlot(inv, 1, Fulfilled(CaughtResult(p, s)))
  /\ fail' = SetSlot(fail, 1, s.cause)
  /\ outcome' = Resolved(CaughtResult(p, s))
  /\ pc' = "idle"
  /\ UNCHANGED <<raceVars, dupExists, launchLog>>

\* CleanUp without the rmSync.
CleanUpSkipped(isWriteMode) == dupExists

\* strategies/parallel.js run, "Clean up parallel clone": the value of
\* dupExists after it.  rmSync({recursive, force}) is taken to succeed.
CleanUp(isWriteMode) == IF isWriteMode THEN FALSE ELSE dupExists

\* PreferA without the write-mode preference.
PreferANever(isWriteMode, best, rs, nameB) == best

\* strategies/parallel.js run, the choice between best and results[0]
PreferA(isWriteMode, best, rs, nameB) ==
  IF isWriteMode /\ best.provider = nameB /\ ~IsGarbageOutput(rs[1].output)
  THEN rs[1]
  ELSE best

\* strategies/parallel.js run, after Promise.allSettled
ParallelFinish(slots) ==
  LET isWriteMode == mode = "execute"
      rs == (IF slots[1].st = "fulfilled" THEN <<slots[1].value>> ELSE <<>>)
              \o (IF slots[2].st = "fulfilled" THEN <<slots[2].value>> ELSE <<>>)
  IN /\ dupExists' = CleanUp(isWriteMode)
     /\ pc' = "idle"
     /\ outcome' = (IF rs = <<>> THEN Thrown
                    ELSE Resolved(PreferA(isWriteMode, PickBestOutput(rs), rs, GetProviderPair[2])))

\* strategies/parallel.js run: one of the two runProvider promises settles
ParallelSettled(p, procs1, s) ==
  LET slots == SetSlot(inv, p.slot, Fulfilled(CaughtResult(p, s)))
  IN /\ procs' = procs1
     /\ inv' = slots
     /\ fail' = SetSlot(fail, p.slot, s.cause)
     /\ UNCHANGED <<raceVars, launchLog>>
     /\ IF \A i \in 1..2 : slots[i].st # "pending"
        THEN ParallelFinish(slots)
        ELSE UNCHANGED <<pc, outcome, dupExists>>

\* resolve()/reject() of the promise returned by the race strategy: only the
\* first call decides the promise.
Settle(o) ==
  /\ settleCalls' = settleCalls + 1
  /\ outcome' = (IF outcome.kind = "pending" THEN o ELSE outcome)
  /\ pc' = "idle"

\* tryResolve that never resolves early: it waits for both and takes the longer.
TryResolveWaitsForBoth(result) ==
  IF settled
  THEN UNCHANGED <<results, settled, settleCalls, outcome, pc>>
  ELSE LET rs == Append(results, result)
       IN /\ results' = rs
          /\ IF Len(rs) >= 2
             THEN /\ settled' = TRUE
                  /\ Settle(Resolved(IF rs[1].output.len >= rs[2].output.len THEN rs[1] ELSE rs[2]))
             ELSE UNCHANGED <<settled, settleCalls, outcome, pc>>

\* strategies/race.js tryResolve
TryResolve(result) ==
  IF settled
  THEN UNCHANGED <<results, settled, settleCalls, outcome, pc>>
  ELSE LET rs == Append(results, result)
       IN /\ results' = rs
          /\ IF ~IsGarbageOutput(result.output) /\ ~result.rateLimited
             THEN settled' = TRUE /\ Settle(Resolved(result))
             ELSE IF Len(rs) >= 2
             THEN /\ settled' = TRUE
                  /\ Settle(Resolved(IF rs[1].output.len >= rs[2].output.len THEN rs[1] ELSE rs[2]))
             ELSE UNCHANGED <<settled, settleCalls, outcome, pc>>

\* tryReject without the `!settled` test.
TryRejectNoSettledTest(providerName) ==
  LET rs == Append(results, Placeholder(providerName))
      valid == SelectSeq2(rs, {r \in Range(rs) : Truthy(r.output) /\ r.output.len > 0})
  IN /\ results' = rs
     /\ IF Len(rs) >= 2
        THEN /\ settled' = TRUE
             /\ Settle(IF valid # <<>> THEN Resolved(valid[1]) ELSE Thrown)
        ELSE UNCHANGED <<settled, settleCalls, outcome, pc>>

\* strategies/race.js tryReject
TryReject(providerName) ==
  LET rs == Append(results, Placeholder(providerName))
      valid == SelectSeq2(rs, {r \in Range(rs) : Truthy(r.output) /\ r.output.len > 0})
  IN /\ results' = rs
     /\ IF Len(rs) >= 2 /\ ~settled
        THEN /\ settled' = TRUE
             /\ Settle(IF valid # <<>> THEN Resolved(valid[1]) ELSE Thrown)
        ELSE UNCHANGED <<settled, settleCalls, outcome, pc>>

\* strategies/race.js run: runProvider(...).then(tryResolve).catch(tryReject)
RaceSettled(p, procs1, s) ==
  /\ procs' = procs1
  /\ inv' = SetSlot(inv, p.slot, IF s.ok THEN Fulfilled(s.result) ELSE RejectedSlot)
  /\ fail' = SetSlot(fail, p.slot, s.cause)
  /\ UNCHANGED <<dupExists, launchLog>>
  /\ IF s.ok THEN TryResolve(s.result) ELSE TryReject(p.prov)

\* strategies/race.js run, "Only one provider": runProvider without try/catch
RaceSingleSettled(p, procs1, s) ==
  /\ procs' = procs1
  /\ inv' = SetSlot(inv, 1, IF s.ok THEN Fulfilled(s.result) ELSE RejectedSlot)
  /\ fail' = SetSlot(fail, 1, s.cause)
  /\ outcome' = (IF s.ok THEN Resolved(s.result) ELSE Thrown)
  /\ pc' = "idle"
  /\ UNCHANGED <<raceVars, dupExists, launchLog>>

\* The two-provider race of the latest call: its closure outlives the call.
InRace == strategy = "race" /\ inv[2].st # "none"

\* A spawn promise settles.  The closures of earlier calls are no longer
\* referenced by anything the caller holds, so a subprocess of an earlier
\* call changes nothing but procs.
Continue(p, procs1, s) ==
  /\ UNCHANGED <<cfgVars, callVars, restVars>>
  /\ IF p.call # callNo
     THEN /\ procs' = procs1
          /\ UNCHANGED <<pc, inv, fail, raceVars, outcome, dupExists, launchLog>>
     ELSE IF InRace THEN RaceSettled(p, procs1, s)
     ELSE IF pc = "single" THEN SingleSettled(p, procs1, s)
     ELSE IF pc = "fb_primary" THEN FallbackPrimarySettled(p, procs1, s)
     ELSE IF pc = "fb_secondary" THEN FallbackSecondarySettled(p, procs1, s)
     ELSE IF pc = "par_single" THEN ParallelSingleSettled(p, procs1, s)
     ELSE IF pc = "parallel" THEN ParallelSettled(p, procs1, s)
     ELSE RaceSingleSettled(p, procs1, s)

---------------------------------------------------------------------------
\* provider.js spawn: the three ways its promise settles, and the exit of a
\* process that was sent SIGTERM.

Running == {p \in procs : p.st = "running"}

\* proc.on('close'): resolve({stdout, stderr, exitCode, duration})
SpawnClose(p, stdout, code) ==
  /\ p \in Running
  /\ Continue(p, procs \ {p}, SpawnOk(MkResult(p.prov, stdout, code)))

\* the timeout timer: proc.kill('SIGTERM'); reject(...).  The process stays
\* until it exits.
SpawnTimeout(p) ==
  /\ p \in Running
  /\ Continue(p, (procs \ {p}) \cup {[p EXCEPT !.st = "killed"]}, SpawnFailed("timeout"))

\* proc.on('error'): reject(...)
SpawnError(p) ==
  /\ p \in Running
  /\ Continue(p, procs \ {p}, SpawnFailed("spawn"))

\* 'close' of a process whose promise was already rejected by the timeout
ProcExit(p) ==
  /\ p \in procs
  /\ p.st = "killed"
  /\ procs' = procs \ {p}
  /\ UNCHANGED <<cfgVars, callVars, pc, inv, fail, raceVars, outcome, dupExists, launchLog, restVars>>

Next ==
  \/ \E m \in Modes : SingleRun(m)
  \/ \E m \in Modes : FallbackRun(m)
  \/ \E m \in Modes, cpOk \in BOOLEAN, partial \in BOOLEAN : ParallelRun(m, cpOk, partial)
  \/ \E m \in Modes : RaceRun(m)
  \/ \E p \in procs : \E stdout \in Stdouts(p.prov), code \in ExitCodes : SpawnClose(p, stdout, code)
  \/ \E p \in procs : SpawnTimeout(p)
  \/ \E p \in procs : SpawnError(p)
  \/ \E p \in procs : ProcExit(p)

Spec == Init /\ [][Next]_vars

TypeOK ==
  /\ callNo \in 0..MaxCalls
  /\ pc \in {"idle", "single", "fb_primary", "fb_secondary", "par_single", "parallel", "race_single", "race"}
  /\ outcome.kind \in {"none", "pending", "resolved", "rejected"}
  /\ Len(results) <= 2

---------------------------------------------------------------------------
\* Properties of the strategies.

\* The latest call has settled.
Done == callNo > 0 /\ pc = "idle"

Finished(i) == inv[i].st \in {"fulfilled", "rejected"}
Acceptable(r) == ~IsGarbageOutput(r.output) /\ ~r.rateLimited
Other(i) == 3 - i
NameOf(i) == IF i = 1 THEN PrimaryName ELSE fallbackProvider

\* C1: at every instant at most two provider subprocesses are running, and
\* every running subprocess belongs to the latest strategy call (none was
\* started by an earlier call).
C1_AtMostTwoAlive ==
  /\ Cardinality(Running) <= 2
  /\ \A p \in Running : p.call = callNo

\* C2: in a two-provider race, if the first invocation to finish returned
\* non-garbage, non-rate-limited output, the call's result is exactly that
\* result, and stays so whatever the other invocation does afterwards.
C2_FirstGoodWins ==
  (InRace /\ results # <<>> /\ Acceptable(results[1]))
    => /\ outcome = Resolved(results[1])
       /\ outcome.value.provider = results[1].provider
       /\ \E i \in 1..2 : inv[i] = Fulfilled(results[1])

\* C2 witness: the slower provider finished later with a longer acceptable
\* output, and the result is still the faster provider's.
C2_Witness ==
  /\ InRace /\ results # <<>> /\ Acceptable(results[1])
  /\ \E i \in 1..2 :
       /\ inv[i] = Fulfilled(results[1])
       /\ inv[Other(i)].st = "fulfilled"
       /\ Acceptable(inv[Other(i)].value)
       /\ inv[Other(i)].value.output.len > results[1].output.len
  /\ outcome = Resolved(results[1])

\* C3: in a two-provider race where both invocations have finished: if
\* exactly one threw, its placeholder is recorded and the call resolves; if
\* both threw, the call fails.
C3_OneThrowStillResolves ==
  (InRace /\ Finished(1) /\ Finished(2))
    => /\ \A i \in 1..2 :
            (inv[i].st = "rejected" /\ inv[Other(i)].st = "fulfilled")
              => /\ Placeholder(NameOf(i)) \in Range(results)
                 /\ outcome.kind = "resolved"
       /\ (inv[1].st = "rejected" /\ inv[2].st = "rejected") => outcome.kind = "rejected"

\* C4: a race or fallback call rejects only when every provider invocation
\* it made threw.
C4_ThrowsOnlyIfAllThrew ==
  (strategy \in {"race", "fallback"} /\ outcome.kind = "rejected")
    => \A i \in 1..2 : inv[i].st # "none" => fail[i] # "none"

\* C5: a two-provider race calls resolve/reject at most once, has not
\* settled before the first call, and has settled exactly once when both
\* invocations have finished.
C5_RaceSettlesOnce ==
  InRace
    => /\ settleCalls <= 1
       /\ (settleCalls = 0) = (outcome.kind = "pending")
       /\ (Finished(1) /\ Finished(2)) => (settleCalls = 1 /\ outcome.kind \in {"resolved", "rejected"})

\* C5 witness: the race resolved on the first, acceptable result and the
\* other invocation threw afterwards (tryReject ran on a settled race).
C5_Witness ==
  /\ InRace /\ Len(results) = 2 /\ Acceptable(results[1])
  /\ \E i \in 1..2 : inv[i].st = "rejected" /\ fail[i] = "timeout"
  /\ settleCalls = 1

\* C6: parallel in execute mode: every launch of the secondary is in the
\* duplicate, made when the duplicate already exists; the primary runs in
\* the real directory; and once the call has completed the duplicate does
\* not exist.
C6_DuplicateRemoved ==
  (strategy = "parallel" /\ mode = "execute" /\ callNo > 0)
    => /\ \A k \in 1..Len(launchLog) :
            IF launchLog[k].slot = 2
            THEN launchLog[k].cwd = "dup" /\ launchLog[k].dup
            ELSE launchLog[k].cwd = "real"
       /\ pc = "idle" => ~dupExists

\* The list handed to pickBestOutput by the parallel strategy.
ParallelResults ==
  (IF inv[1].st = "fulfilled" THEN <<inv[1].value>> ELSE <<>>)
    \o (IF inv[2].st = "fulfilled" THEN <<inv[2].value>> ELSE <<>>)

\* A two-provider parallel call in execute mode has completed with a result
\* and winner selection picked the secondary's result.
SecondaryPicked ==
  /\ strategy = "parallel" /\ mode = "execute" /\ Done
  /\ inv[2].st = "fulfilled"
  /\ outcome.kind = "resolved"
  /\ PickBestOutput(ParallelResults) = inv[2].value

\* C7 as stated: whenever winner selection picks the secondary's result in
\* execute mode, the primary's result is returned.
C7_AlwaysPrimary ==
  SecondaryPicked => (inv[1].st = "fulfilled" /\ outcome.value = inv[1].value)

\* C7 amended: when winner selection picks the secondary's result in
\* execute mode, the primary's result is returned if the primary produced a
\* non-garbage output, and the secondary's result is returned otherwise.
C7_PrimaryUnlessGarbage ==
  SecondaryPicked
    => IF inv[1].st = "fulfilled" /\ ~IsGarbageOutput(inv[1].value.output)
       THEN outcome.value = inv[1].value /\ outcome.value.provider = PrimaryName
       ELSE outcome.value = inv[2].value

\* C7 witness: the secondary was picked over a usable primary result, and
\* the primary's result was returned.
C7_Witness ==
  /\ SecondaryPicked
  /\ inv[1].st = "fulfilled" /\ ~IsGarbageOutput(inv[1].value.output)
  /\ outcome.value = inv[1].value
  /\ inv[2].value.output.mark /\ ~inv[1].value.output.mark

\* Provider A's invocation threw and provider B succeeded with structured
\* output, in a completed two-provider parallel call in execute mode.
AThrewBStructured ==
  /\ strategy = "parallel" /\ mode = "execute" /\ Done
  /\ inv[2].st = "fulfilled"
  /\ fail[1] # "none" /\ fail[2] = "none"
  /\ inv[2].value.completedNormally
  /\ inv[2].value.output.mark
  /\ Acceptable(inv[2].value)

FallbackConfigured == fallbackProvider # Unset /\ fallbackProvider \in ADAPTERS

\* C9: a completed fallback call whose primary completed normally, is not
\* rate-limited and is not garbage returns the primary's result and never
\* launched the secondary; otherwise, with a secondary configured, the
\* secondary was launched after the primary and its result is returned
\* whatever it is.
C9_FallbackChoice ==
  (strategy = "fallback" /\ Done /\ inv[1].st = "fulfilled")
    => LET r == inv[1].value
           good == r.completedNormally /\ ~r.rateLimited /\ ~IsGarbageOutput(r.output)
       IN /\ good => /\ outcome = Resolved(r)
                     /\ inv[2].st = "none"
                     /\ Len(launchLog) = 1
          /\ (~good /\ FallbackConfigured)
               => /\ Len(launchLog) = 2
                  /\ launchLog[1].slot = 1 /\ launchLog[2].slot = 2
                  /\ launchLog[2].provider = fallbackProvider
                  /\ inv[2].st = "fulfilled"
                  /\ outcome = Resolved(inv[2].value)
                  /\ outcome.value.provider = fallbackProvider

\* C9 witness: the primary failed, the secondary failed too, and the
\* returned result carries the secondary's name.
C9_Witness ==
  /\ strategy = "fallback" /\ Done /\ FallbackConfigured
  /\ fallbackProvider # PrimaryName
  /\ fail[1] # "none"
  /\ inv[2].st = "fulfilled" /\ fail[2] # "none"
  /\ outcome.kind = "resolved"
  /\ outcome.value.provider = fallbackProvider
  /\ ~outcome.value.completedNormally

\* C10: a completed single-strategy call (with a known adapter) returns the
\* invocation's result; when the invocation timed out the call still
\* resolves, with a failing result.
C10_TimeoutIsAFailingResult ==
  (strategy = "single" /\ Done /\ PrimaryName \in ADAPTERS)
    => /\ fail[1] = "none" => outcome = Resolved(inv[1].value)
       /\ fail[1] = "timeout" => (outcome.kind = "resolved" /\ ~outcome.value.completedNormally)

\* ------------------------------------------------------------------------
\* The prompt layer: evaluator (prompt/evaluator.js) and debate engine
\* (prompt/debate.js).  A role or judge invocation is a call of runAI whose
\* result is drawn from the results the strategy layer above can produce:
\* a text, with or without the rateLimited flag, or an exception.
\* ------------------------------------------------------------------------

MaxRoundsCfg == 3            \* largest configured debate.maxRounds examined
DefaultMaxRounds == 3
MinTranscriptLen == 200
MinFilePaths == 2
MinActionVerbs == 3
MinCheatsheetLen == 100
HeaderLen == 60              \* the two headings and blank lines of the transcript

DTexts ==
  { NoText,
    DText(40, 0, 1, FALSE),
    DText(90, 1, 2, FALSE),
    DText(150, 2, 3, FALSE),
    DText(120, 0, 3, FALSE),
    DText(120, 2, 0, FALSE),
    DText(70, 0, 0, TRUE),
    DText(150, 2, 3, TRUE) }

\* What a role invocation does: it returns a result or it throws.
RoleOutcomes ==
  [threw : {FALSE}, out : DTexts] \cup { [threw |-> TRUE, out |-> NoText] }

\* `${A}` between the two headings, `${B}` after them; trim() removes the
\* blank lines that end the transcript when B is empty.
Transcript(a, b) ==
  [len |-> HeaderLen + a.len + b.len,
   trim |-> IF b.len = 0 THEN HeaderLen - 2 + a.len ELSE HeaderLen + a.len + b.len,
   paths |-> a.paths + b.paths,
   verbs |-> a.verbs + b.verbs]
NoTranscript == [len |-> 0, trim |-> 0, paths |-> 0, verbs |-> 0]

\* The judge's answer.  block: trimmed length of the text between the two
\* cheatsheet markers, -1 without a well-formed pair of markers; after:
\* trimmed length of the text after the first APPROVED.
JOut(a, r, b, f) == [approved |-> a, rejected |-> r, block |-> b, after |-> f]
JudgeOutputs ==
  { JOut(TRUE, FALSE, 300, 350),
    JOut(TRUE, FALSE, 50, 100),
    JOut(TRUE, FALSE, -1, 250),
    JOut(TRUE, FALSE, -1, 20),
    JOut(TRUE, TRUE, 300, 400),
    JOut(FALSE, TRUE, -1, 0),
    JOut(FALSE, TRUE, 300, 0),
    JOut(FALSE, FALSE, -1, 0),
    JOut(FALSE, FALSE, 300, 0),
    JOut(FALSE, FALSE, 0, 0) }
JudgeOutcomes ==
  [threw : {FALSE}, out : JudgeOutputs]
    \cup { [threw |-> TRUE, out |-> JOut(FALSE, FALSE, -1, 0)] }

PlanTruthy(c) == c.kind # "none" /\ c.len > 0
TranscriptPlan(t) == Plan("transcript", t.len)

\* Variant: the pre-check does not count action verbs.
structuralCheckWithoutVerbs(t) ==
  /\ t.len > 0
  /\ t.trim >= MinTranscriptLen
  /\ t.paths >= MinFilePaths

structuralCheck(t) ==
  /\ t.len > 0
  /\ t.trim >= MinTranscriptLen
  /\ t.paths >= MinFilePaths
  /\ t.verbs >= MinActionVerbs

extractCheatsheet(o) ==
  IF o.block >= 0 THEN Plan("block", o.block)
  ELSE IF o.approved /\ o.after > MinCheatsheetLen THEN Plan("after", o.after)
  ELSE NoPlan

Verdict(passed, cheatsheet, feedback, judged, threw) ==
  [passed |-> passed, cheatsheet |-> cheatsheet, feedback |-> feedback,
   judged |-> judged, threw |-> threw]

\* Variant: the forced branch does not fall back to the transcript.
ForcedExtractionNoFallback(t, o) ==
  Verdict(TRUE, extractCheatsheet(o), "Forced extraction", TRUE, FALSE)

\* evaluate(): `extractCheatsheet(output) || debateOutput` of the forced branch.
ForcedExtraction(t, o) ==
  LET c == extractCheatsheet(o) IN
  Verdict(TRUE, IF PlanTruthy(c) THEN c ELSE TranscriptPlan(t),
          "Forced extraction", TRUE, FALSE)

\* Variant: a rejection by the judge is honoured in forced mode too.
JudgeAnsweredHonoursRejection(t, force, o) ==
  IF o.approved
  THEN LET c == extractCheatsheet(o) IN
       IF PlanTruthy(c) /\ c.len > MinCheatsheetLen
       THEN Verdict(TRUE, c, "none", TRUE, FALSE)
       ELSE Verdict(TRUE, TranscriptPlan(t), "none", TRUE, FALSE)
  ELSE IF o.rejected
  THEN Verdict(FALSE, NoPlan, "rejected", TRUE, FALSE)
  ELSE IF force
  THEN ForcedExtraction(t, o)
  ELSE Verdict(FALSE, NoPlan, "ambiguous", TRUE, FALSE)

\* evaluate(): the branches taken once the judge has answered.
JudgeAnswered(t, force, o) ==
  IF o.approved
  THEN LET c == extractCheatsheet(o) IN
       IF PlanTruthy(c) /\ c.len > MinCheatsheetLen
       THEN Verdict(TRUE, c, "none", TRUE, FALSE)
       ELSE Verdict(TRUE, TranscriptPlan(t), "none", TRUE, FALSE)
  ELSE IF o.rejected /\ ~force
  THEN Verdict(FALSE, NoPlan, "rejected", TRUE, FALSE)
  ELSE IF force
  THEN ForcedExtraction(t, o)
  ELSE Verdict(FALSE, NoPlan, "ambiguous", TRUE, FALSE)

\* evaluate(): the catch block.
JudgeThrew(t, force) ==
  IF force
  THEN Verdict(TRUE, TranscriptPlan(t), "Evaluator failed, using raw debate output",
               TRUE, TRUE)
  ELSE Verdict(FALSE, NoPlan, "Evaluator error", TRUE, TRUE)

evaluate(t, force, j) ==
  IF ~force /\ ~structuralCheck(t)
  THEN Verdict(FALSE, NoPlan, "structural", FALSE, FALSE)
  ELSE IF j.threw THEN JudgeThrew(t, force)
  ELSE JudgeAnswered(t, force, j.out)

\* ---- runDebate -----------------------------------------------------------

\* The strategy layer is not modelled below a role or judge invocation.
AiOff ==
  /\ strategy = "single"
  /\ provider = Unset
  /\ fallbackProvider = Unset
  /\ callNo = 0
  /\ mode = "debate"
  /\ pc = "idle"
  /\ procs = {}
  /\ inv = [i \in 1..2 |-> NoSlot]
  /\ fail = [i \in 1..2 |-> "none"]
  /\ results = <<>>
  /\ settled = FALSE
  /\ settleCalls = 0
  /\ outcome = Outcome("none", NoResult)
  /\ dupExists = FALSE
  /\ launchLog = <<>>

RoleEntry(r, agent, j) ==
  [round |-> r, agent |-> agent, threw |-> j.threw,
   rateLimited |-> ~j.threw /\ j.out.rl, text |-> ~j.threw /\ j.out.len > 0]
EvalEntry(r, force, post, v) ==
  [round |-> r, force |-> force, post |-> post, judged |-> v.judged,
   threw |-> v.threw, passed |-> v.passed, cheatsheet |-> v.cheatsheet,
   feedback |-> v.feedback]
RoundFile(r, agent) == [round |-> r, agent |-> agent]

\* config.aiProvider?.debate?.maxRounds || config.debate?.maxRounds || 3
\* (0 stands for a value that is not set).
ConfiguredRounds(cfg) == IF cfg = 0 THEN DefaultMaxRounds ELSE cfg

InitDebate ==
  /\ AiOff
  /\ SpawnOff
  /\ PipelineOff
  /\ maxRounds \in { ConfiguredRounds(cfg) : cfg \in 0..MaxRoundsCfg }
  /\ round = 1
  /\ dpc = "A"
  /\ agentAOutput = NoText
  /\ agentBOutput = NoText
  /\ lastDebateOutput = NoTranscript
  /\ debateResult = DebateOutcome(FALSE, NoPlan, "none", 0)
  /\ roleLog = <<>>
  /\ evalLog = <<>>
  /\ roundFiles = {}

\* saveRoundOutput(checkpointDir, round, agent, output); the pipeline always
\* passes a checkpointDir.
saveRoundOutput(r, agent) == roundFiles' = roundFiles \cup {RoundFile(r, agent)}

\* Variant: a role invocation that threw is tried again.
RoleFailedRetries == dpc' = dpc

\* `break`, in the catch block of a role invocation.
RoleFailed == dpc' = "after"

\* Lines 85-113.
RunAgentA(j) ==
  /\ dpc = "A"
  /\ roleLog' = Append(roleLog, RoleEntry(round, "a", j))
  /\ IF j.threw
     THEN RoleFailed /\ UNCHANGED <<agentAOutput, roundFiles>>
     ELSE /\ agentAOutput' = j.out
          /\ IF j.out.rl
             THEN dpc' = "after" /\ UNCHANGED roundFiles
             ELSE saveRoundOutput(round, "a") /\ dpc' = "B"
  /\ UNCHANGED <<aiVars, spawnVars, pipeVars, maxRounds, round, agentBOutput, lastDebateOutput,
                 debateResult, evalLog>>

\* Lines 132-163.
RunAgentB(j) ==
  /\ dpc = "B"
  /\ roleLog' = Append(roleLog, RoleEntry(round, "b", j))
  /\ IF j.threw
     THEN RoleFailed /\ UNCHANGED <<agentBOutput, roundFiles, lastDebateOutput>>
     ELSE /\ agentBOutput' = j.out
          /\ IF j.out.rl
             THEN dpc' = "after" /\ UNCHANGED <<roundFiles, lastDebateOutput>>
             ELSE /\ saveRoundOutput(round, "b")
                  /\ lastDebateOutput' = Transcript(agentAOutput, j.out)
                  /\ dpc' = "eval"
  /\ UNCHANGED <<aiVars, spawnVars, pipeVars, maxRounds, round, agentAOutput, debateResult, evalLog>>

\* Variant: an approval before the last round does not end the loop.
AfterEvaluateRunsAllRounds(v) ==
  IF v.passed /\ round = maxRounds
  THEN /\ debateResult' = DebateOutcome(TRUE, v.cheatsheet, "none", round)
       /\ dpc' = "done"
       /\ UNCHANGED round
  ELSE IF round + 1 <= maxRounds
  THEN round' = round + 1 /\ dpc' = "A" /\ UNCHANGED debateResult
  ELSE dpc' = "after" /\ UNCHANGED <<round, debateResult>>

\* Lines 173-186: return on approval, otherwise the next round or the end
\* of the loop.
AfterEvaluate(v) ==
  IF v.passed
  THEN /\ debateResult' = DebateOutcome(TRUE, v.cheatsheet, "none", round)
       /\ dpc' = "done"
       /\ UNCHANGED round
  ELSE IF round + 1 <= maxRounds
  THEN round' = round + 1 /\ dpc' = "A" /\ UNCHANGED debateResult
  ELSE dpc' = "after" /\ UNCHANGED <<round, debateResult>>

\* Lines 165-171.
EvaluateRound(j) ==
  /\ dpc = "eval"
  /\ LET isLastRound == round = maxRounds
         v == evaluate(lastDebateOutput, isLastRound, j) IN
     /\ evalLog' = Append(evalLog, EvalEntry(round, isLastRound, FALSE, v))
     /\ AfterEvaluate(v)
  /\ UNCHANGED <<aiVars, spawnVars, pipeVars, maxRounds, agentAOutput, agentBOutput, lastDebateOutput,
                 roleLog, roundFiles>>

DebateFailed ==
  DebateOutcome(FALSE, NoPlan, "Debate failed to produce an acceptable cheatsheet", maxRounds)

\* Lines 188-210: after the loop.
AfterLoop(j) ==
  /\ dpc = "after"
  /\ dpc' = "done"
  /\ IF lastDebateOutput.len > 0
     THEN LET forceResult == evaluate(lastDebateOutput, TRUE, j) IN
          /\ evalLog' = Append(evalLog, EvalEntry(round, TRUE, TRUE, forceResult))
          /\ debateResult' =
               IF PlanTruthy(forceResult.cheatsheet)
               THEN DebateOutcome(TRUE, forceResult.cheatsheet, "Forced after max rounds", maxRounds)
               ELSE DebateFailed
     ELSE debateResult' = DebateFailed /\ UNCHANGED evalLog
  /\ UNCHANGED <<aiVars, spawnVars, pipeVars, maxRounds, round, agentAOutput, agentBOutput,
                 lastDebateOutput, roleLog, roundFiles>>

NextDebate ==
  \/ \E j \in RoleOutcomes : RunAgentA(j)
  \/ \E j \in RoleOutcomes : RunAgentB(j)
  \/ \E j \in JudgeOutcomes : EvaluateRound(j)
  \/ \E j \in JudgeOutcomes : AfterLoop(j)

SpecDebate == InitDebate /\ [][NextDebate]_vars

DebateDone == dpc = "done"

\* ---- Claims about the debate engine and the evaluator ---------------------

InLoopApprovals == { i \in 1..Len(evalLog) : evalLog[i].passed /\ ~evalLog[i].post }

\* C11: when the evaluation after round r approves, the debate stops at once
\* and returns that plan with rounds = r: the approving evaluation is the
\* last evaluator call, no role is invoked for a round after r.
C11_ApprovalStopsDebate ==
  \A i \in InLoopApprovals :
    /\ i = Len(evalLog)
    /\ dpc = "done"
    /\ debateResult.passed
    /\ debateResult.rounds = evalLog[i].round
    /\ debateResult.cheatsheet = evalLog[i].cheatsheet
    /\ \A k \in 1..Len(roleLog) : roleLog[k].round <= evalLog[i].round
    /\ Len(roleLog) = 2 * evalLog[i].round

\* Cap 3, round 1 approved without force: two role invocations, one evaluation.
C11_Witness ==
  /\ maxRounds = 3
  /\ dpc = "done"
  /\ Len(evalLog) = 1
  /\ evalLog[1].passed /\ evalLog[1].round = 1 /\ ~evalLog[1].force
  /\ Len(roleLog) = 2
  /\ debateResult.rounds = 1

\* Every round before the cap was evaluated and rejected.
RejectedBeforeCap ==
  \A r \in 1..(maxRounds - 1) :
    \E i \in 1..Len(evalLog) :
      evalLog[i].round = r /\ ~evalLog[i].post /\ ~evalLog[i].passed

\* C12: when every round up to the cap is rejected and a transcript exists,
\* the last evaluator call is a forced one, it asks the judge, and the debate
\* returns a plan that is not null.
C12_ForcedFinalEvaluation ==
  (DebateDone /\ RejectedBeforeCap /\ lastDebateOutput.len > 0) =>
    /\ evalLog # <<>>
    /\ evalLog[Len(evalLog)].force
    /\ evalLog[Len(evalLog)].judged
    /\ debateResult.passed
    /\ PlanTruthy(debateResult.cheatsheet)

\* Cap 3: two rejections, then a forced evaluation whose judge gave nothing
\* to extract, so that the transcript itself is the plan.
C12_Witness ==
  /\ maxRounds = 3
  /\ DebateDone
  /\ Len(evalLog) = 3
  /\ ~evalLog[1].passed /\ ~evalLog[2].passed
  /\ evalLog[3].force /\ ~evalLog[3].threw
  /\ debateResult.passed
  /\ debateResult.cheatsheet.kind = "transcript"

\* Some role invocation returned a text of its own (not a rate-limit report).
RoleTextExists ==
  \E k \in 1..Len(roleLog) : roleLog[k].text /\ ~roleLog[k].rateLimited

\* C13: a role invocation that reports a rate limit is the last role
\* invocation of the debate, and when the debate has ended the text the roles
\* had written by then has been submitted to the evaluator after the loop.
C13_RateLimitStillEvaluates ==
  \A k \in 1..Len(roleLog) :
    roleLog[k].rateLimited =>
      /\ k = Len(roleLog)
      /\ (DebateDone /\ RoleTextExists) =>
           (evalLog # <<>> /\ evalLog[Len(evalLog)].post)

AllRoundFiles(n) == { RoundFile(r, agent) : r \in 1..n, agent \in {"a", "b"} }

\* C14: every role invocation that returned output has its round file on
\* disk, however the debate goes on or ends; and a 3-round debate with rounds
\* 1 and 2 rejected and round 3 approved in forced mode leaves exactly the
\* three pairs of round files and returns a non-empty plan.
C14_RoundOutputsPersisted ==
  /\ \A k \in 1..Len(roleLog) :
       roleLog[k].text => RoundFile(roleLog[k].round, roleLog[k].agent) \in roundFiles
  /\ ( /\ maxRounds = 3 /\ DebateDone /\ Len(evalLog) = 3
       /\ ~evalLog[1].passed /\ ~evalLog[2].passed
       /\ evalLog[3].force /\ evalLog[3].passed )
     => (roundFiles = AllRoundFiles(3) /\ PlanTruthy(debateResult.cheatsheet))

\* C15: a debate with cap N makes at most 2*N role invocations and at most
\* N+1 evaluator calls, and the round count it returns lies in 1..N.
C15_BoundedDebate ==
  /\ Len(roleLog) <= 2 * maxRounds
  /\ Len(evalLog) <= maxRounds + 1
  /\ DebateDone => debateResult.rounds \in 1..maxRounds

\* A debate with the default cap that used every round.
C15_Witness ==
  /\ maxRounds = DefaultMaxRounds
  /\ DebateDone
  /\ Len(roleLog) = 2 * maxRounds
  /\ Len(evalLog) = maxRounds
  /\ debateResult.rounds = maxRounds

\* The latest evaluate() call was made on the transcript that is now in
\* lastDebateOutput (a new transcript is evaluated in the very next step).
LatestEvaluated == evalLog # <<>> /\ dpc # "eval"

TooShort(t) == t.len = 0 \/ t.trim < 200
FewPaths(t) == t.paths < 2
FewVerbs(t) == t.verbs < 3

\* C16: a non-forced evaluation of a transcript shorter than 200 characters,
\* or with fewer than 2 file paths, or with fewer than 3 action verbs, is a
\* rejection made without asking the judge; a forced evaluation always asks
\* the judge and is never a rejection.
C16_StructuralPreCheck ==
  LatestEvaluated =>
    LET e == evalLog[Len(evalLog)]
        t == lastDebateOutput IN
    /\ (~e.force /\ (TooShort(t) \/ FewPaths(t) \/ FewVerbs(t))) =>
         (~e.passed /\ ~e.judged /\ e.cheatsheet = NoPlan)
    /\ e.force => (e.judged /\ e.passed)

\* Round 1 rejected by the pre-check alone, round 2 (the cap) evaluated in
\* forced mode on a transcript that fails the pre-check.
C16_Witness ==
  /\ maxRounds = 2
  /\ LatestEvaluated
  /\ Len(evalLog) = 2
  /\ ~evalLog[1].force /\ ~evalLog[1].judged /\ ~evalLog[1].passed
  /\ evalLog[2].force /\ evalLog[2].judged
  /\ FewVerbs(lastDebateOutput) /\ ~FewPaths(lastDebateOutput) /\ ~TooShort(lastDebateOutput)

\* C17: in forced mode a judge response of any kind (negative, malformed,
\* ambiguous) yields a plan: text extracted from the response, or else the
\* transcript itself; a forced evaluation returns no plan only if the judge
\* invocation threw.
C17_ForcedAlwaysCoerced ==
  (LatestEvaluated /\ evalLog[Len(evalLog)].force) =>
    LET e == evalLog[Len(evalLog)] IN
    /\ ~e.threw =>
         /\ e.passed
         /\ PlanTruthy(e.cheatsheet)
         /\ e.cheatsheet.kind \in {"block", "after", "transcript"}
         /\ e.cheatsheet.kind = "transcript" => e.cheatsheet.len = lastDebateOutput.len
    /\ ~PlanTruthy(e.cheatsheet) => e.threw

\* A forced evaluation whose judge neither approved nor gave a usable block:
\* the transcript is the plan.
C17_Witness ==
  /\ LatestEvaluated
  /\ evalLog[Len(evalLog)].force
  /\ ~evalLog[Len(evalLog)].threw
  /\ evalLog[Len(evalLog)].feedback = "Forced extraction"
  /\ evalLog[Len(evalLog)].cheatsheet = TranscriptPlan(lastDebateOutput)

\* ------------------------------------------------------------------------
\* The pipeline orchestrator (pipeline/index.js): runs of one ticket, the
\* resume command, and the checkpoint store (pipeline/checkpoint.js).  What
\* the steps call (JIRA, git, the agent, the debate) is drawn from its
\* possible outcomes.
\* ------------------------------------------------------------------------

MaxBranches == 2             \* largest number of (service, branch) pairs examined
MaxRetries == 2              \* largest config.agent.executionRetries examined
MaxResumes == 1              \* largest number of resume() calls examined

STEP_ORDER ==
  << "FETCH_TICKET", "VALIDATE_TICKET", "CLONE_REPO", "BUILD_CHEATSHEET",
     "EXECUTE", "VALIDATE_EXECUTION", "SHIP", "NOTIFY" >>

getStepNumber(step) ==
  IF \E i \in 1..Len(STEP_ORDER) : STEP_ORDER[i] = step
  THEN CHOOSE i \in 1..Len(STEP_ORDER) : STEP_ORDER[i] = step
  ELSE 0

\* What runDebate returns to buildCheatsheet: a plan, or a failure; `judged`
\* tells whether the debate got as far as calling the evaluator.
DebateReturns ==
  { [passed |-> TRUE, cheatsheet |-> TRUE, judged |-> TRUE],
    [passed |-> FALSE, cheatsheet |-> FALSE, judged |-> TRUE],
    [passed |-> FALSE, cheatsheet |-> FALSE, judged |-> FALSE] }

\* The `mode` the debate passes to runAI: the two roles, and the evaluator.
DebateRoleMode == "debate"
EvaluatorMode == "evaluate"
\* The `mode` agent/index.js execute() passes to runAI.
ExecuteMode == "execute"

Failure(b, error) == [branch |-> b, error |-> error]

\* An exception raised in step number `step` while pair b was processed.
Raised(step, b) == [step |-> step, branch |-> b]

\* One runAI call: the pair, the mode, and whether the pair's plan was in
\* the checkpoint store when the call was made.
AiCall(b, m, checkpointed) == [branch |-> b, mode |-> m, checkpointed |-> checkpointed]

\* Variant: the cheatsheet is kept in state.json only.
saveCheckpointStateOnly(step, sheet, b) ==
  /\ stateFile' = State(step, sheet, b)
  /\ lastSave' = State(step, sheet, b)
  /\ UNCHANGED cheatsheetFile

saveCheckpoint(step, sheet, b) ==
  /\ stateFile' = State(step, sheet, b)
  /\ cheatsheetFile' = IF sheet # NoSheet THEN sheet ELSE cheatsheetFile
  /\ lastSave' = State(step, sheet, b)

\* The state is the parsed state.json, with its cheatsheet field set from
\* cheatsheet.md whenever that file exists.
loadCheckpoint ==
  IF stateFile = NoState THEN NoState
  ELSE [stateFile EXCEPT !.cheatsheet =
          IF cheatsheetFile # NoSheet THEN cheatsheetFile ELSE @]

\* Variant: clearing removes the whole checkpoint directory.
clearCheckpointRemovesAll ==
  /\ stateFile' = NoState
  /\ cheatsheetFile' = NoSheet

clearCheckpoint ==
  /\ stateFile' = NoState
  /\ UNCHANGED cheatsheetFile

ckptVars == <<stateFile, cheatsheetFile, lastSave>>

earlyRejectionGate == ~ticket.shapeOk

buildCheatsheet(d) ==
  IF earlyRejectionGate THEN SheetResult("rejected", "early", FALSE)
  ELSE IF ~d.passed \/ ~d.cheatsheet THEN SheetResult("rejected", "late", TRUE)
  ELSE SheetResult("approved", "none", TRUE)

InitPipeline ==
  /\ AiOff
  /\ SpawnOff
  /\ DebateOff
  /\ ticket \in [valid : BOOLEAN, shapeOk : BOOLEAN]
  /\ nBranches \in 1..MaxBranches
  /\ maxRetries \in 1..MaxRetries
  /\ ppc = "fetch"
  /\ branch = 0
  /\ attempt = 0
  /\ planText = NoSheet
  /\ tmpDir = FALSE
  /\ stateFile = NoState
  /\ cheatsheetFile = NoSheet
  /\ allPRs = {}
  /\ allFailures = {}
  /\ pipelineResult = "none"
  /\ lastCompleted = "none"
  /\ sheetResults = [b \in 1..nBranches |-> NoSheetResult]
  /\ resumes = 0
  /\ resumeLog = NoResume
  /\ stepsRun = {}
  /\ thrownAt = {}
  /\ cloneDirs = {}
  /\ aiLog = {}
  /\ execCount = [b \in 1..nBranches |-> 0]
  /\ lastValidation = "none"
  /\ reports = <<>>
  /\ finalized = <<>>
  /\ lastSave = NoState

pipeCfg == <<ticket, nBranches, maxRetries>>
resumeVars == <<resumes, resumeLog>>
outVars == <<pipelineResult, reports, finalized>>

\* startStep(n, ...).
startStep(n) == stepsRun' = stepsRun \cup {n}

\* Variant: the catch block only logs the error.
TopCatchAfterSilent(sent) ==
  /\ reports' = reports \o sent
  /\ UNCHANGED finalized
  /\ pipelineResult' = "error"
  /\ ppc' = "done"

\* runPipeline: the catch block at the top of the run posts the failure,
\* finalizes the run as failed and returns the failure result; `sent` are
\* the reports the step that threw had already posted.
TopCatchAfter(sent) ==
  /\ reports' = (reports \o sent) \o <<"failure">>
  /\ finalized' = Append(finalized, FALSE)
  /\ pipelineResult' = "error"
  /\ ppc' = "done"

TopCatch == TopCatchAfter(<<>>)

\* Variant: the clone directory is removed only after a pair that shipped.
cleanupOnSuccessOnly(shipped) ==
  cloneDirs' = IF tmpDir /\ shipped THEN cloneDirs \ {branch} ELSE cloneDirs

\* The `finally` of processServiceBranch: cleanup(tmpDir) when it was set.
cleanup(shipped) ==
  cloneDirs' = IF tmpDir THEN cloneDirs \ {branch} ELSE cloneDirs

\* The end of processServiceBranch for one pair, its `finally` included,
\* and the head of the loop over the pairs.
BranchEnds(shipped) ==
  /\ cleanup(shipped)
  /\ tmpDir' = FALSE
  /\ planText' = NoSheet
  /\ attempt' = 0
  /\ lastValidation' = "none"
  /\ IF branch < nBranches
     THEN branch' = branch + 1 /\ ppc' = "clone"
     ELSE ppc' = "notify" /\ UNCHANGED branch

\* Variant: a failed pair ends the loop over the pairs.
BranchFailedEndsLoop(error) ==
  /\ allFailures' = allFailures \cup {Failure(branch, error)}
  /\ UNCHANGED allPRs
  /\ cleanup(FALSE)
  /\ tmpDir' = FALSE
  /\ planText' = NoSheet
  /\ attempt' = 0
  /\ lastValidation' = "none"
  /\ ppc' = "notify"
  /\ UNCHANGED branch

BranchFailed(error) ==
  /\ allFailures' = allFailures \cup {Failure(branch, error)}
  /\ UNCHANGED allPRs
  /\ BranchEnds(FALSE)

\* An exception inside processServiceBranch reaches the catch of the loop.
BranchThrew(step) ==
  /\ thrownAt' = thrownAt \cup {Raised(step, branch)}
  /\ BranchFailed("exception")

BranchShipped ==
  /\ allPRs' = allPRs \cup {branch}
  /\ UNCHANGED allFailures
  /\ BranchEnds(TRUE)

\* Step 1.
FetchTicket(o) ==
  /\ ppc = "fetch"
  /\ startStep(1)
  /\ IF o = "throws"
     THEN /\ TopCatch
          /\ thrownAt' = thrownAt \cup {Raised(1, 0)}
          /\ UNCHANGED <<ckptVars, lastCompleted>>
     ELSE /\ saveCheckpoint("FETCH_TICKET", NoSheet, 0)
          /\ lastCompleted' = "FETCH_TICKET"
          /\ ppc' = "validate"
          /\ UNCHANGED <<outVars, thrownAt>>
  /\ UNCHANGED <<aiVars, spawnVars, debateVars, pipeCfg, resumeVars, branch, attempt, planText,
                 tmpDir, allPRs, allFailures, sheetResults, cloneDirs, aiLog,
                 execCount, lastValidation>>

\* Step 2.
ValidateTicket(o) ==
  /\ ppc = "validate"
  /\ startStep(2)
  /\ IF ~ticket.valid
     THEN /\ IF o = "throws"
             THEN TopCatch /\ thrownAt' = thrownAt \cup {Raised(2, 0)}
             ELSE /\ reports' = Append(reports, "validation_failed")
                  /\ finalized' = Append(finalized, FALSE)
                  /\ pipelineResult' = "validation_failed"
                  /\ ppc' = "done"
                  /\ UNCHANGED thrownAt
          /\ UNCHANGED <<ckptVars, lastCompleted, branch>>
     ELSE /\ o = "ok"
          /\ saveCheckpoint("VALIDATE_TICKET", NoSheet, 0)
          /\ lastCompleted' = "VALIDATE_TICKET"
          /\ branch' = 1
          /\ ppc' = "clone"
          /\ UNCHANGED <<outVars, thrownAt>>
  /\ UNCHANGED <<aiVars, spawnVars, debateVars, pipeCfg, resumeVars, attempt, planText, tmpDir,
                 allPRs, allFailures, sheetResults, cloneDirs, aiLog, execCount,
                 lastValidation>>

\* Step 3: cloneAndBranch removes its own directory when it fails.
CloneRepo(o) ==
  /\ ppc = "clone"
  /\ startStep(3)
  /\ IF o = "throws"
     THEN BranchThrew(3) /\ UNCHANGED <<ckptVars, lastCompleted>>
     ELSE /\ tmpDir' = TRUE
          /\ cloneDirs' = cloneDirs \cup {branch}
          /\ saveCheckpoint("CLONE_REPO", NoSheet, branch)
          /\ lastCompleted' = "CLONE_REPO"
          /\ ppc' = "build"
          /\ UNCHANGED <<branch, attempt, planText, allPRs, allFailures, thrownAt,
                         lastValidation>>
  /\ UNCHANGED <<aiVars, spawnVars, debateVars, pipeCfg, resumeVars, outVars, sheetResults,
                 aiLog, execCount>>

\* Variant: the rejection is thrown and reaches the catch of the loop.
CheatsheetRejectedThrows == BranchFailed("exception")

\* processServiceBranch, lines 273-278: the rejection is returned as the
\* pair's error.
CheatsheetRejected == BranchFailed("Cheatsheet rejected")

\* Whether the checkpoint store holds the current pair's plan.
Checkpointed ==
  /\ stateFile.branch = branch
  /\ stateFile.cheatsheet = branch
  /\ cheatsheetFile = branch

\* Variant: execution starts before the approved plan is checkpointed.
CheatsheetApprovedUnsaved ==
  /\ planText' = branch
  /\ attempt' = 1
  /\ ppc' = "execute"
  /\ UNCHANGED <<branch, tmpDir, allPRs, allFailures, cloneDirs, lastValidation,
                 ckptVars, lastCompleted>>

\* processServiceBranch, lines 280-292: the approved plan is checkpointed,
\* then the execute loop is entered.
CheatsheetApproved ==
  /\ planText' = branch
  /\ saveCheckpoint("BUILD_CHEATSHEET", branch, branch)
  /\ lastCompleted' = "BUILD_CHEATSHEET"
  /\ attempt' = 1
  /\ ppc' = "execute"
  /\ UNCHANGED <<branch, tmpDir, allPRs, allFailures, cloneDirs, lastValidation>>

\* Step 4.
BuildCheatsheet(d) ==
  /\ ppc = "build"
  /\ startStep(4)
  /\ LET cheatsheetResult == buildCheatsheet(d) IN
     /\ sheetResults' = [sheetResults EXCEPT ![branch] = cheatsheetResult]
     /\ aiLog' = aiLog \cup
          (IF cheatsheetResult.debated
           THEN {AiCall(branch, DebateRoleMode, Checkpointed)} \cup
                (IF d.judged THEN {AiCall(branch, EvaluatorMode, Checkpointed)} ELSE {})
           ELSE {})
     /\ IF cheatsheetResult.status = "rejected"
        THEN CheatsheetRejected /\ UNCHANGED <<ckptVars, lastCompleted>>
        ELSE CheatsheetApproved
  /\ UNCHANGED <<aiVars, spawnVars, debateVars, pipeCfg, resumeVars, outVars, thrownAt, execCount>>

\* Step 4, when building the contexts throws.
BuildCheatsheetThrows ==
  /\ ppc = "build"
  /\ startStep(4)
  /\ BranchThrew(4)
  /\ UNCHANGED <<aiVars, spawnVars, debateVars, pipeCfg, resumeVars, outVars, sheetResults,
                 ckptVars, lastCompleted, aiLog, execCount>>

\* Variant: an attempt without output is always repeated.
ExecuteEmptyAlwaysRetries ==
  /\ attempt' = attempt + 1
  /\ UNCHANGED <<ppc, branch, planText, tmpDir, allPRs, allFailures, cloneDirs,
                 lastValidation>>

\* processServiceBranch, lines 299-304: an attempt without output.
ExecuteEmpty ==
  IF attempt < maxRetries
  THEN /\ attempt' = attempt + 1
       /\ UNCHANGED <<ppc, branch, planText, tmpDir, allPRs, allFailures, cloneDirs,
                      lastValidation>>
  ELSE BranchFailed("Execution produced no output")

\* Step 5, one attempt.
Execute(o) ==
  /\ ppc = "execute"
  /\ startStep(5)
  /\ aiLog' = aiLog \cup {AiCall(branch, ExecuteMode, Checkpointed)}
  /\ execCount' = [execCount EXCEPT ![branch] = @ + 1]
  /\ IF o = "throws"
     THEN BranchThrew(5) /\ UNCHANGED <<ckptVars, lastCompleted>>
     ELSE IF o = "empty"
     THEN ExecuteEmpty /\ UNCHANGED <<ckptVars, lastCompleted, thrownAt>>
     ELSE /\ saveCheckpoint("EXECUTE", planText, branch)
          /\ lastCompleted' = "EXECUTE"
          /\ ppc' = "validateExec"
          /\ UNCHANGED <<branch, attempt, planText, tmpDir, allPRs, allFailures,
                         cloneDirs, lastValidation, thrownAt>>
  /\ UNCHANGED <<aiVars, spawnVars, debateVars, pipeCfg, resumeVars, outVars, sheetResults>>

\* Variant: a validation that still fails on the last attempt fails the pair.
ValidatedAbortsWhenInvalid(o) ==
  IF o = "invalid" /\ attempt < maxRetries
  THEN /\ attempt' = attempt + 1
       /\ ppc' = "execute"
       /\ lastValidation' = o
       /\ UNCHANGED <<branch, planText, tmpDir, allPRs, allFailures, lastCompleted,
                      cloneDirs>>
  ELSE IF o = "invalid"
  THEN BranchFailed("Validation failed") /\ UNCHANGED lastCompleted
  ELSE /\ lastCompleted' = "VALIDATE_EXECUTION"
       /\ ppc' = "ship"
       /\ lastValidation' = o
       /\ UNCHANGED <<branch, attempt, planText, tmpDir, allPRs, allFailures, cloneDirs>>

\* processServiceBranch, lines 318-329: what follows the validation verdict.
Validated(o) ==
  IF o = "invalid" /\ attempt < maxRetries
  THEN /\ attempt' = attempt + 1
       /\ ppc' = "execute"
       /\ lastValidation' = o
       /\ UNCHANGED <<branch, planText, tmpDir, allPRs, allFailures, lastCompleted,
                      cloneDirs>>
  ELSE /\ lastCompleted' = IF o = "valid" THEN "VALIDATE_EXECUTION" ELSE lastCompleted
       /\ ppc' = "ship"
       /\ lastValidation' = o
       /\ UNCHANGED <<branch, attempt, planText, tmpDir, allPRs, allFailures, cloneDirs>>

\* Step 6: no checkpoint is written for it.
ValidateExecution(o) ==
  /\ ppc = "validateExec"
  /\ startStep(6)
  /\ IF o = "throws"
     THEN BranchThrew(6) /\ UNCHANGED lastCompleted
     ELSE Validated(o) /\ UNCHANGED thrownAt
  /\ UNCHANGED <<aiVars, spawnVars, debateVars, pipeCfg, resumeVars, outVars, sheetResults,
                 ckptVars, aiLog, execCount>>

\* Step 7.
Ship(o) ==
  /\ ppc = "ship"
  /\ startStep(7)
  /\ IF o = "pr"
     THEN /\ saveCheckpoint("SHIP", NoSheet, branch)
          /\ lastCompleted' = "SHIP"
          /\ BranchShipped
          /\ UNCHANGED thrownAt
     ELSE /\ IF o = "throws" THEN BranchThrew(7)
             ELSE /\ BranchFailed(IF o = "noChanges" THEN "No changes to commit"
                                  ELSE "PR creation failed")
                  /\ UNCHANGED thrownAt
          /\ UNCHANGED <<ckptVars, lastCompleted>>
  /\ UNCHANGED <<aiVars, spawnVars, debateVars, pipeCfg, resumeVars, outVars, sheetResults,
                 aiLog, execCount>>

\* Step 8.  Without a PR the run reports that and ends.  With one, the
\* final report is posted first; saveCheckpoint(NOTIFY) and clearCheckpoint,
\* which unlinks state.json and nothing else, come after it, and a failure
\* of theirs reaches the catch block of the run.
Notify(o) ==
  /\ ppc = "notify"
  /\ startStep(8)
  /\ IF allPRs = {}
     THEN /\ o = "ok"
          /\ reports' = Append(reports, "no_prs_created")
          /\ finalized' = Append(finalized, FALSE)
          /\ pipelineResult' = "no_prs_created"
          /\ ppc' = "done"
          /\ UNCHANGED <<ckptVars, lastCompleted, thrownAt>>
     ELSE IF o = "throws"
     THEN /\ TopCatchAfter(<<"success">>)
          /\ thrownAt' = thrownAt \cup {Raised(8, 0)}
          /\ UNCHANGED <<ckptVars, lastCompleted>>
     ELSE /\ reports' = Append(reports, "success")
          /\ lastSave' = State("NOTIFY", NoSheet, 0)
          /\ clearCheckpoint
          /\ lastCompleted' = "NOTIFY"
          /\ finalized' = Append(finalized, TRUE)
          /\ pipelineResult' = "success"
          /\ ppc' = "done"
          /\ UNCHANGED thrownAt
  /\ UNCHANGED <<aiVars, spawnVars, debateVars, pipeCfg, resumeVars, branch, attempt, planText,
                 tmpDir, allPRs, allFailures, sheetResults, cloneDirs, aiLog,
                 execCount, lastValidation>>

\* runPipeline called again for the same ticket: everything the run keeps
\* in memory starts afresh, the files on disk are what the last run left.
StartRun ==
  /\ ppc' = "fetch"
  /\ branch' = 0
  /\ attempt' = 0
  /\ planText' = NoSheet
  /\ tmpDir' = FALSE
  /\ allPRs' = {}
  /\ allFailures' = {}
  /\ pipelineResult' = "none"
  /\ sheetResults' = [b \in 1..nBranches |-> NoSheetResult]
  /\ stepsRun' = {}
  /\ thrownAt' = {}
  /\ aiLog' = {}
  /\ execCount' = [b \in 1..nBranches |-> 0]
  /\ lastValidation' = "none"
  /\ reports' = <<>>
  /\ finalized' = <<>>

runVars ==
  <<ppc, branch, attempt, planText, tmpDir, allPRs, allFailures, pipelineResult,
    sheetResults, stepsRun, thrownAt, aiLog, execCount, lastValidation, reports,
    finalized>>

\* The steps `fromStep` may name on the command line.
FromSteps == {3, 4, 5, 7}

\* state.json carries ticketData for every step but NOTIFY.
HasTicketData(checkpoint) == checkpoint.currentStep # "NOTIFY"

\* state.json carries cloneDir for the steps 3 to 5 of a pair.
HasCloneDir(checkpoint) ==
  checkpoint.currentStep \in {"CLONE_REPO", "BUILD_CHEATSHEET", "EXECUTE"}

\* Variant: the cheatsheet is not looked for before the run starts.
ResumePreconditionUnchecked(stepNum, checkpoint) == FALSE

\* resume, lines 219-222.
ResumePrecondition(stepNum, checkpoint) ==
  stepNum >= 5 /\ checkpoint.cheatsheet = NoSheet

\* The resume command, given after a run of the ticket has ended.
Resume(fromStep) ==
  /\ ppc = "done"
  /\ resumes < MaxResumes
  /\ resumes' = resumes + 1
  /\ LET checkpoint == loadCheckpoint
         stepNum == fromStep
         hadState == checkpoint # NoState
         hadSheet == checkpoint.cheatsheet # NoSheet
         dirMissing == /\ stepNum >= 3
                       /\ HasCloneDir(checkpoint)
                       /\ checkpoint.branch \notin cloneDirs
         entry(how) == ResumeEntry(fromStep, hadState, hadSheet, dirMissing, how)
     IN IF ~hadState
        THEN resumeLog' = entry("No checkpoint found") /\ UNCHANGED runVars
        ELSE IF ResumePrecondition(stepNum, checkpoint)
        THEN resumeLog' = entry("no cheatsheet found in checkpoint") /\ UNCHANGED runVars
        ELSE IF HasTicketData(checkpoint)
        THEN resumeLog' = entry("rerun") /\ StartRun
        ELSE resumeLog' = entry("insufficient checkpoint data") /\ UNCHANGED runVars
  /\ UNCHANGED <<aiVars, spawnVars, debateVars, pipeCfg, ckptVars, lastCompleted, cloneDirs>>

NextPipeline ==
  \/ \E o \in {"ok", "throws"} : FetchTicket(o)
  \/ \E o \in {"ok", "throws"} : ValidateTicket(o)
  \/ \E o \in {"ok", "throws"} : CloneRepo(o)
  \/ \E d \in DebateReturns : BuildCheatsheet(d)
  \/ BuildCheatsheetThrows
  \/ \E o \in {"output", "empty", "throws"} : Execute(o)
  \/ \E o \in {"valid", "invalid", "throws"} : ValidateExecution(o)
  \/ \E o \in {"pr", "noChanges", "noPr", "throws"} : Ship(o)
  \/ \E o \in {"ok", "throws"} : Notify(o)
  \/ \E fromStep \in FromSteps : Resume(fromStep)

SpecPipeline == InitPipeline /\ [][NextPipeline]_vars

\* ---- Claims about the pipeline and the checkpoint store -------------------

RejectedPairs == { b \in 1..nBranches : sheetResults[b].status = "rejected" }

\* C18: a quality rejection is returned by the build-cheatsheet step as a
\* rejection with a phase tag, 'early' exactly when no debate was run and
\* 'late' after a debate; the pipeline records it as that pair's failure, not
\* as an exception and not as a PR, and goes on to the next pair.
C18_RejectionIsStructured ==
  \A b \in RejectedPairs :
    /\ sheetResults[b].phase \in {"early", "late"}
    /\ sheetResults[b].phase = "early" <=> ~sheetResults[b].debated
    /\ Failure(b, "Cheatsheet rejected") \in allFailures
    /\ Failure(b, "exception") \notin allFailures
    /\ b \notin allPRs
    /\ IF b < nBranches THEN branch > b ELSE ppc \in {"notify", "done"}

\* The first pair's plan was rejected by the debate, the second pair was
\* processed after it and produced a PR.
C18_Witness ==
  /\ nBranches = 2
  /\ sheetResults[1] = SheetResult("rejected", "late", TRUE)
  /\ allFailures = {Failure(1, "Cheatsheet rejected")}
  /\ allPRs = {2}
  /\ pipelineResult = "success"

\* C19: at every point of a run the checkpoint names the last step that has
\* completed; it never names a step that has not completed.
C19_CheckpointNamesLastCompleted ==
  /\ lastCompleted # "none" =>
       (stateFile # NoState /\ stateFile.currentStep = lastCompleted)
  /\ stateFile # NoState =>
       (lastCompleted # "none"
          /\ getStepNumber(stateFile.currentStep) <= getStepNumber(lastCompleted))

\* C20: what load returns after a save is what that save wrote, with no
\* field, the plan included, taken from an earlier checkpoint of the ticket.
C20_SaveReplacesWholesale ==
  stateFile # NoState => loadCheckpoint = stateFile


\* ------------------------------------------------------------------------
\* Claims about the cheatsheet artifact, the checkpoint round trip and the
\* resume command.
\* ------------------------------------------------------------------------

\* The pairs of the current run whose cheatsheet was approved.
ApprovedPairs ==
  { b \in DOMAIN sheetResults : sheetResults[b].status = "approved" }

\* C21: once cheatsheet.md has been written no later action of the pipeline
\* removes it; clearing the checkpoint removes state.json and leaves
\* cheatsheet.md as it was; and after a successful run cheatsheet.md holds
\* the plan written last, that of the last pair whose plan was approved.
C21_CheatsheetSurvivesClearing ==
  /\ [][ /\ cheatsheetFile # NoSheet => cheatsheetFile' # NoSheet
         /\ (stateFile # NoState /\ stateFile' = NoState) =>
              cheatsheetFile' = cheatsheetFile ]_vars
  /\ [](pipelineResult = "success" =>
          /\ stateFile = NoState
          /\ ApprovedPairs # {}
          /\ \A b \in ApprovedPairs : b <= cheatsheetFile
          /\ cheatsheetFile \in ApprovedPairs)

C21_Witness ==
  /\ pipelineResult = "success"
  /\ stateFile = NoState
  /\ cheatsheetFile = 2
  /\ allPRs = {1, 2}


\* C22: while the checkpoint written by the latest save is in place, load
\* returns a state whose current step is the step that was saved; a plan
\* given to the save is the plan load returns; and a plan in the loaded
\* state is the content of cheatsheet.md.
C22_CheckpointRoundTrip ==
  stateFile # NoState =>
    /\ loadCheckpoint.currentStep = lastSave.currentStep
    /\ lastSave.cheatsheet # NoSheet => loadCheckpoint.cheatsheet = lastSave.cheatsheet
    /\ loadCheckpoint.cheatsheet # NoSheet => loadCheckpoint.cheatsheet = cheatsheetFile

C22_Witness ==
  /\ lastSave = State("EXECUTE", 2, 2)
  /\ loadCheckpoint = State("EXECUTE", 2, 2)
  /\ cheatsheetFile = 2


\* How a resume() call that threw ended.
ResumeErrors ==
  { "No checkpoint found", "no cheatsheet found in checkpoint",
    "insufficient checkpoint data" }

\* C23: resume loads the checkpoint; called for the execute step or a later
\* one when the checkpoint has no cheatsheet it throws its explicit error,
\* and a resume that throws starts no step and changes nothing of the run;
\* when the clone directory the checkpoint names no longer exists resume
\* does not fail for that: the run goes on and clones again before any
\* later step of a pair.
C23_ResumeFailsFastOrReclones ==
  /\ [](resumeLog.outcome # "none" =>
          /\ ~resumeLog.hadState => resumeLog.outcome = "No checkpoint found"
          /\ (resumeLog.hadState /\ ~resumeLog.hadSheet
                /\ resumeLog.fromStep >= getStepNumber("EXECUTE"))
               => resumeLog.outcome = "no cheatsheet found in checkpoint"
          /\ (resumeLog.dirMissing
                /\ (resumeLog.hadSheet \/ resumeLog.fromStep < getStepNumber("EXECUTE")))
               => /\ resumeLog.outcome = "rerun"
                  /\ stepsRun \cap 4..7 # {} => 3 \in stepsRun)
  /\ [][ (resumeLog' # resumeLog /\ resumeLog'.outcome \in ResumeErrors)
           => UNCHANGED <<runVars, ckptVars, cloneDirs, lastCompleted>> ]_vars

C23_Witness ==
  /\ resumeLog = ResumeEntry(5, TRUE, FALSE, TRUE, "no cheatsheet found in checkpoint")
  /\ stateFile.currentStep = "CLONE_REPO"
  /\ pipelineResult = "no_prs_created"


\* C24: a run started by resuming from step N, N the execute step or a later
\* one, starts no step before N and makes no debate or evaluator call: it
\* continues at step N with the persisted cheatsheet.
C24_ResumeSkipsCompletedSteps ==
  (resumeLog.outcome = "rerun" /\ resumeLog.fromStep >= getStepNumber("EXECUTE")) =>
    /\ \A n \in stepsRun : n >= resumeLog.fromStep
    /\ \A c \in aiLog : c.mode = ExecuteMode


\* ------------------------------------------------------------------------
\* Claims about the steps of one (service, branch) pair.
\* ------------------------------------------------------------------------

PairSteps == {"clone", "build", "execute", "validateExec", "ship"}

\* The step that may follow step p within the same pair.
PairSuccessors(p) ==
  CASE p = "clone" -> {"build"}
    [] p = "build" -> {"execute"}
    [] p = "execute" -> {"execute", "validateExec"}
    [] p = "validateExec" -> {"execute", "ship"}
    [] OTHER -> {}

\* C25: within a pair the steps follow one another only in the order clone,
\* build cheatsheet, execute, validate execution, ship (execute repeated
\* within the retry budget); every execute-mode call is made for a pair
\* whose cheatsheet has been approved and is in the checkpoint store, none
\* while the pair is being cloned or its cheatsheet built; and the calls of
\* the debate roles and the evaluator are not execute-mode calls.
C25_FixedStepOrder ==
  /\ [][ (ppc \in PairSteps /\ ppc' \in PairSteps /\ branch' = branch)
           => ppc' \in PairSuccessors(ppc) ]_vars
  /\ [][ (ppc' \in PairSteps /\ branch' # branch)
           => (ppc' = "clone" /\ branch' = branch + 1) ]_vars
  /\ [](\A c \in aiLog :
          /\ c.mode = ExecuteMode =>
               (c.checkpointed /\ sheetResults[c.branch].status = "approved")
          /\ (ppc \in {"clone", "build"} /\ c.branch = branch) => c.mode # ExecuteMode
          /\ ~c.checkpointed => c.mode \in {DebateRoleMode, EvaluatorMode})

C25_Witness ==
  /\ ppc = "ship"
  /\ branch = 2
  /\ aiLog = { AiCall(1, DebateRoleMode, FALSE),
               AiCall(2, DebateRoleMode, FALSE), AiCall(2, EvaluatorMode, FALSE),
               AiCall(2, ExecuteMode, TRUE) }


NoOutput(b) == Failure(b, "Execution produced no output")

\* C26: a pair is executed at most maxRetries times; the pair fails for want
\* of output only when the whole budget has been used; and from the first
\* attempt to the last the plan stays the same and no debate or evaluator
\* call is made.
C26_BoundedExecuteRetries ==
  /\ [](\A b \in DOMAIN execCount :
          /\ execCount[b] <= maxRetries
          /\ NoOutput(b) \in allFailures => execCount[b] = maxRetries)
  /\ [](ppc = "execute" => execCount[branch] = attempt - 1)
  /\ [][ (ppc \in {"execute", "validateExec"}) =>
           ( /\ \A c \in aiLog' \ aiLog : c.mode = ExecuteMode
             /\ ppc' \in {"execute", "validateExec", "ship"} =>
                  (planText' = planText /\ branch' = branch) ) ]_vars

C26_Witness ==
  /\ nBranches = 1
  /\ maxRetries = 2
  /\ ppc = "notify"
  /\ lastCompleted = "BUILD_CHEATSHEET"
  /\ execCount = <<2>>
  /\ allFailures = {NoOutput(1)}


\* The errors a pair can end with.
PairErrors ==
  { "exception", "Cheatsheet rejected", "Execution produced no output",
    "No changes to commit", "PR creation failed" }

\* C27: an execution whose validation fails is repeated while attempts
\* remain; with no attempt left, and whenever the validation passes, the
\* pair goes on to ship with nothing recorded against it, so a pair reaches
\* ship with a failed validation exactly when the budget is used up, and no
\* pair ends with validation issues as its error.
C27_ValidationNeverAborts ==
  /\ [][ (ppc = "validateExec" /\ lastValidation' = "invalid" /\ attempt < maxRetries)
           => (ppc' = "execute" /\ attempt' = attempt + 1 /\ branch' = branch
                 /\ planText' = planText /\ allFailures' = allFailures) ]_vars
  /\ [][ (ppc = "validateExec"
            /\ (lastValidation' = "valid"
                  \/ (lastValidation' = "invalid" /\ attempt >= maxRetries)))
           => (ppc' = "ship" /\ attempt' = attempt /\ branch' = branch
                 /\ allFailures' = allFailures) ]_vars
  /\ []((ppc = "ship" /\ lastValidation = "invalid") => attempt = maxRetries)
  /\ [](\A f \in allFailures : f.error \in PairErrors)

C27_Witness ==
  /\ ppc = "ship"
  /\ lastValidation = "invalid"
  /\ maxRetries = 2
  /\ execCount[branch] = 2
  /\ allFailures = {}


TopSteps == {1, 2, 8}

FailureResults == {"error", "validation_failed", "no_prs_created"}

C30_ExactlyOneReport ==
  IF ppc = "done"
  THEN Len(reports) = 1 /\ Len(finalized) = 1
  ELSE reports = <<>> /\ finalized = <<>>


\* ------------------------------------------------------------------------
\* The spawn engine (ai-provider/provider.js spawn): one call, from
\* setInterval to the settling of its promise, followed by the adapter's
\* parseStreamOutput in runProvider.  Time is counted in heartbeat intervals
\* (30 s); the timeout is a whole number of them.
\* ------------------------------------------------------------------------

MaxTimeout == 3              \* largest opts.timeout examined, in heartbeat intervals

\* A stdout: the raw text, and the events a stream-json reader finds in it
\* (whether there is a result event, its text, the last assistant text).
Stream(raw, resultEvent, result, assistant) ==
  [raw |-> raw, resultEvent |-> resultEvent, result |-> result, assistant |-> assistant]

Plain60 == Text(60, 60, FALSE, FALSE, FALSE)
Marked120 == Text(120, 120, FALSE, FALSE, TRUE)

\* What a subprocess can have written by the time it closes.
Streams ==
  { Stream(EmptyText, FALSE, EmptyText, EmptyText),                 \* nothing
    Stream(Plain60, FALSE, EmptyText, EmptyText),                   \* plain text, no event
    Stream(Text(72, 72, FALSE, TRUE, FALSE), FALSE, EmptyText, EmptyText),
    Stream(Text(150, 150, FALSE, FALSE, FALSE), FALSE, EmptyText, Plain60),
    Stream(Text(210, 210, FALSE, FALSE, TRUE), TRUE, Marked120, EmptyText),
    Stream(Text(300, 300, FALSE, FALSE, TRUE), TRUE, Marked120, Plain60),
    Stream(Text(180, 180, FALSE, FALSE, FALSE), TRUE, EmptyText, Plain60),
    Stream(Text(90, 90, FALSE, FALSE, FALSE), TRUE, EmptyText, EmptyText) }

InitSpawn ==
  /\ AiOff
  /\ DebateOff
  /\ PipelineOff
  /\ spAdapter \in ADAPTERS
  /\ spTimeout \in 1..MaxTimeout
  /\ exitsOnOwn \in BOOLEAN
  /\ spClock = 0
  /\ heartbeat = "none"
  /\ timeoutId = "none"
  /\ proc = "none"
  /\ signals = <<>>
  /\ spPromise = PendingSpawn
  /\ lateBeats = 0
  /\ parsed = NoParse

spawnCfg == <<spAdapter, spTimeout, exitsOnOwn>>
otherVars == <<aiVars, debateVars, pipeVars>>

\* resolve(v) / reject(e): only the first call decides the promise.
SettleSpawn(v) == spPromise' = (IF spPromise.st = "pending" THEN v ELSE spPromise)

clearInterval == heartbeat' = (IF heartbeat = "active" THEN "cleared" ELSE heartbeat)
clearTimeout == timeoutId' = (IF timeoutId = "armed" THEN "cleared" ELSE timeoutId)

\* spawn, lines 36-60 and the registration of the handlers: setInterval,
\* then the promise executor.  nodeSpawn returns a running child, or a child
\* whose 'error' event is still to come (the command was not found), or it
\* throws (as does proc.stdin.end() on a child without pipes), which
\* rejects the promise from inside the executor.
SpawnCall(o) ==
  /\ heartbeat = "none"
  /\ heartbeat' = "active"
  /\ IF o = "throws"
     THEN /\ SettleSpawn(SpawnPromise("rejected", NoStream, -1, "spawn threw", spClock))
          /\ UNCHANGED <<proc, timeoutId>>
     ELSE /\ proc' = (IF o = "spawned" THEN "running" ELSE "failed")
          /\ timeoutId' = "armed"
          /\ UNCHANGED spPromise
  /\ UNCHANGED <<otherVars, spawnCfg, spClock, signals, lateBeats, parsed>>

\* One heartbeat interval passes; the interval callback logs a line when the
\* timer is still set.  An armed timeout fires when its time has come.
Tick ==
  /\ heartbeat # "none"
  /\ spClock <= spTimeout
  /\ timeoutId = "armed" => spClock < spTimeout
  /\ spClock' = spClock + 1
  /\ lateBeats' = (IF heartbeat = "active" /\ spPromise.st # "pending"
                   THEN lateBeats + 1 ELSE lateBeats)
  /\ UNCHANGED <<otherVars, spawnCfg, heartbeat, timeoutId, proc, signals, spPromise, parsed>>

\* Variant: the timeout rejects without signalling the process.
TimedOutNoKill ==
  /\ clearInterval
  /\ UNCHANGED <<signals, proc>>
  /\ SettleSpawn(SpawnPromise("rejected", NoStream, -1, "timed out after", spClock))

\* spawn, lines 111-117: the timeout callback.
TimedOut ==
  /\ clearInterval
  /\ signals' = Append(signals, "SIGTERM")
  /\ proc' = (IF proc = "running" THEN "signalled" ELSE proc)
  /\ SettleSpawn(SpawnPromise("rejected", NoStream, -1, "timed out after", spClock))

TimeoutFires ==
  /\ timeoutId = "armed"
  /\ spClock = spTimeout
  /\ timeoutId' = "fired"
  /\ TimedOut
  /\ UNCHANGED <<otherVars, spawnCfg, spClock, lateBeats, parsed>>

\* Variant: a non-zero exit code rejects the promise.
ClosedRejectsNonZero(stdout, code) ==
  SettleSpawn(IF code = 0 THEN SpawnPromise("resolved", stdout, code, "none", spClock)
              ELSE SpawnPromise("rejected", NoStream, code, "exited with code", spClock))

\* spawn, lines 134-152: what the 'close' handler settles the promise with.
Closed(stdout, code) ==
  SettleSpawn(SpawnPromise("resolved", stdout, code, "none", spClock))

\* proc.on('close'), of a process that exits by itself or after the signal.
CloseEvent(stdout, code) ==
  /\ \/ proc = "running" /\ exitsOnOwn
     \/ proc = "signalled"
  /\ proc' = "exited"
  /\ clearTimeout
  /\ clearInterval
  /\ Closed(stdout, code)
  /\ UNCHANGED <<otherVars, spawnCfg, spClock, signals, lateBeats, parsed>>

\* proc.on('error').
ErrorEvent ==
  /\ proc = "failed"
  /\ proc' = "errored"
  /\ clearTimeout
  /\ clearInterval
  /\ SettleSpawn(SpawnPromise("rejected", NoStream, -1, "Failed to spawn", spClock))
  /\ UNCHANGED <<otherVars, spawnCfg, spClock, signals, lateBeats, parsed>>

\* runProvider, after `await spawnFn(...)`: adapter.parseStreamOutput.
ParseResult ==
  /\ spPromise.st = "resolved"
  /\ ~parsed.done
  /\ LET r == ParseStreamOutput(spAdapter, spPromise.stdout, spPromise.exitCode)
     IN parsed' = [done |-> TRUE, output |-> r.output,
                   completedNormally |-> r.completedNormally]
  /\ UNCHANGED <<otherVars, spawnCfg, spClock, heartbeat, timeoutId, proc, signals,
                 spPromise, lateBeats>>

NextSpawn ==
  \/ \E o \in {"spawned", "notFound", "throws"} : SpawnCall(o)
  \/ Tick
  \/ TimeoutFires
  \/ \E stdout \in Streams, code \in ExitCodes : CloseEvent(stdout, code)
  \/ ErrorEvent
  \/ ParseResult

SpecSpawn == InitSpawn /\ [][NextSpawn]_vars

\* C31: a spawn promise is never pending once the timeout has elapsed; when
\* the subprocess was started and does not exit by itself the promise is
\* rejected with the timed-out message carrying the elapsed time, which is
\* the timeout, and SIGTERM has been sent to the process.
C31_TimeoutRejectsAndSignals ==
  /\ spPromise.st = "pending" => spClock <= spTimeout
  /\ (~exitsOnOwn /\ proc \in {"signalled", "exited"}) =>
       /\ spPromise.st = "rejected"
       /\ spPromise.message = "timed out after"
       /\ spPromise.elapsed = spTimeout
       /\ signals = <<"SIGTERM">>
  /\ (~exitsOnOwn /\ proc = "running") => (spPromise.st = "pending" /\ spClock <= spTimeout)
  /\ timeoutId = "fired" => (signals = <<"SIGTERM">> /\ spPromise.st = "rejected")

C31_Witness ==
  /\ ~exitsOnOwn
  /\ spTimeout = 3
  /\ spClock = 3
  /\ proc = "signalled"
  /\ signals = <<"SIGTERM">>
  /\ spPromise = SpawnPromise("rejected", NoStream, -1, "timed out after", 3)


\* C32: whenever the spawn promise has settled the heartbeat timer has been
\* cleared, so no heartbeat line is logged after the call has settled.
C32_HeartbeatCleared ==
  /\ spPromise.st # "pending" => heartbeat # "active"
  /\ lateBeats = 0

\* C33: a process that closes before the timeout has fired resolves the
\* promise with the stdout and the exit code it closed with, whatever the
\* code; the promise is rejected only by the timeout, by a spawn error or
\* by a throw of the launch itself.
C33_ExitCodeIsReturned ==
  /\ (proc = "exited" /\ timeoutId # "fired") =>
       /\ spPromise.st = "resolved"
       /\ spPromise.exitCode \in ExitCodes
       /\ timeoutId = "cleared"
  /\ spPromise.st = "rejected" =>
       spPromise.message \in {"timed out after", "Failed to spawn", "spawn threw"}
  /\ [][ (proc = "running" /\ proc' = "exited") =>
           \E stdout \in Streams, code \in ExitCodes :
             spPromise' = SpawnPromise("resolved", stdout, code, "none", spClock) ]_vars

C33_Witness ==
  /\ proc = "exited"
  /\ timeoutId = "cleared"
  /\ spPromise.st = "resolved"
  /\ spPromise.exitCode = 1
  /\ spPromise.stdout = Stream(Text(300, 300, FALSE, FALSE, TRUE), TRUE, Marked120, Plain60)
  /\ spClock < spTimeout


\* C34 (as stated): for every adapter, a stream with a result event parses to
\* that event's text whatever assistant text came before, and a stream with
\* no result event parses to the last assistant text (the empty string when
\* there is none).
C34_ResultEventTextForEveryAdapter ==
  parsed.done =>
    /\ spPromise.stdout.resultEvent => parsed.output = spPromise.stdout.result
    /\ ~spPromise.stdout.resultEvent => parsed.output = spPromise.stdout.assistant

\* C34 (amended): for the stream-json adapter a result event with non-empty
\* text parses to that text whatever assistant text came before; with no
\* result event, or one whose text is empty, the output is the last assistant
\* text, which is the empty string when there is none. For the plain-text
\* adapter the output is the raw stdout, whatever events it contains.
C34_ResultTextElseAssistantElseRaw ==
  parsed.done =>
    /\ (spAdapter = "claude" /\ Truthy(spPromise.stdout.result)) =>
         parsed.output = spPromise.stdout.result
    /\ (spAdapter = "claude" /\ ~Truthy(spPromise.stdout.result)) =>
         parsed.output = spPromise.stdout.assistant
    /\ spAdapter = "codex" => parsed.output = spPromise.stdout.raw

C34_Witness ==
  /\ parsed.done
  /\ spAdapter = "claude"
  /\ spPromise.stdout = Stream(Text(300, 300, FALSE, FALSE, TRUE), TRUE, Marked120, Plain60)
  /\ parsed.output = Marked120


\* C35: every result whose rateLimited flag is set is classified as garbage,
\* whichever adapter produced it, and a completed parallel call returns a
\* rate-limited result only when no candidate was acceptable.
C35_RateLimitedIsGarbage ==
  /\ \A i \in 1..2 :
       (inv[i].st = "fulfilled" /\ inv[i].value.rateLimited)
         => IsGarbageOutput(inv[i].value.output)
  /\ (strategy = "parallel" /\ Done /\ outcome.kind = "resolved" /\ outcome.value.rateLimited)
       => \A r \in Range(ParallelResults) : ~Acceptable(r)


\* The candidates of winner selection that are not garbage.
UsableResults == {r \in Range(ParallelResults) : ~IsGarbageOutput(r.output)}

\* r is at least as long as every result of the set.
LongestOf(r, rs) == r \in rs /\ \A q \in rs : r.output.len >= q.output.len

C37_OneWriterInRealDir ==
  mode = "execute"
    => Cardinality({p \in Running : p.call = callNo /\ p.cwd = "real"}) <= 1


\* C38: once a strategy call has returned, no subprocess launched by that
\* call is still running.
C38_NoSubprocessOutlivesCall ==
  Done => \A p \in Running : p.call # callNo


\* C39: an evaluation that is not forced and whose judge response contains
\* the rejection keyword is never recorded as passed.
C39_RejectionKeywordNeverPasses ==
  [][ \A j \in JudgeOutcomes :
        (EvaluateRound(j) /\ round # maxRounds /\ ~j.threw /\ j.out.rejected)
          => ~evalLog'[Len(evalLog')].passed ]_vars


====
